---- MODULE Spec2Model ----
(***************************************************************************)
(* libzkp: proof envelope codec, predicate facade over the Bulletproofs,   *)
(* Groth16 and STARK engines, compositor and batch registry.               *)
(*                                                                         *)
(* Byte strings are sequences of tokens.  A token [x, a, b] stands for the *)
(* bytes a..b-1 of the object x.  The object <<"z", v>> is a run of the    *)
(* concrete byte v (a = 0, b = run length); every other object is the      *)
(* serialisation of a value of an external cryptographic library, whose    *)
(* bytes are opaque.  Byte strings are kept normalised (adjacent tokens    *)
(* that continue each other are merged) so that equality of byte strings   *)
(* is equality of their representations.                                   *)
(***************************************************************************)
EXTENDS Integers, Sequences, FiniteSets, TLC

\* let x = v; ...: F is applied to the value of v, which is computed once
With(v, F(_)) == F(v)

VARIABLES
    cSrc, cProof, cBytes, cDec,     \* codec: what the caller holds and got
    pEnv, pSrc, pOut,               \* facade: envelope, its origin, last verdict
    srs,                            \* UNIVERSAL_SETUP and MEMBERSHIP_SETUP
    kSrc, kComp, kBytes, kOut,      \* compositor: origin, composite, bytes, last result
    registry, counter,              \* BATCH_REGISTRY and BATCH_COUNTER
    procs,                          \* the process_batch call each thread is in
    taken,                          \* per id, the process_batch calls that found the batch
    bOut,                           \* the last batch call that returned, and its result
    keyDir, envDir,                 \* SNARK_KEY_DIR and the variable LIBZKP_SNARK_KEY_DIR
    keyFiles,                       \* per directory and circuit, the key files on disk
    cellRun,                        \* per setup cell, its initialisation and what callers saw
    callers,                        \* the set_snark_key_dir or setup call each thread is in
    locks,                          \* who holds the BATCH_REGISTRY and BATCH_COUNTER mutexes
    calls,                          \* the registry call each thread is in, lock by lock
    ledger,                         \* the ids handed out and the operations accepted, in lock order
    disk,                           \* the two key files of a circuit in a shared key directory
    writers                         \* the load-or-generate routine of each process using that directory

codecVars == <<cSrc, cProof, cBytes, cDec>>
proofVars == <<pEnv, pSrc, pOut, srs>>
compVars == <<kSrc, kComp, kBytes, kOut>>
batchVars == <<registry, counter, procs, taken, bOut>>
setupVars == <<keyDir, envDir, keyFiles, cellRun, callers>>
lockVars == <<locks, calls, ledger>>
fileVars == <<disk, writers>>
vars == <<cSrc, cProof, cBytes, cDec, pEnv, pSrc, pOut, srs, kSrc, kComp, kBytes, kOut,
          registry, counter, procs, taken, bOut, keyDir, envDir, keyFiles, cellRun, callers,
          locks, calls, ledger, disk, writers>>

-----------------------------------------------------------------------------
(* Program constants                                                       *)

PROOF_VERSION == 1
MAX_PROOF_TOTAL_BYTES == 1 * 1024 * 1024
MAX_PROOF_PAYLOAD_BYTES == 900 * 1024
MAX_COMMITMENT_BYTES == 256
HEADER_LEN == 10

-----------------------------------------------------------------------------
(* Lengths of the serialised values of the external libraries              *)

POINT_LEN == 32
RANGE_PROOF_LEN == 672
GROTH16_PROOF_LEN == 256
STARK_PROOF_LEN == 1024
DIGEST_LEN == 32
SCALAR_LEN == 32

ObjLen(o) ==
    CASE o[1] = "pt"    -> POINT_LEN
      [] o[1] = "rp"    -> RANGE_PROOF_LEN
      [] o[1] = "g16"   -> GROTH16_PROOF_LEN
      [] o[1] = "stark" -> STARK_PROOF_LEN
      [] o[1] = "sha"   -> DIGEST_LEN
      [] o[1] = "fs"    -> SCALAR_LEN
      [] o[1] = "resp"  -> SCALAR_LEN
      [] OTHER          -> 1

-----------------------------------------------------------------------------
(* Byte strings (Vec<u8> and &[u8])                                        *)

IsRaw(t) == t.x[1] = "z"
TokLen(t) == t.b - t.a

RECURSIVE BLen(_)
BLen(bs) == IF bs = <<>> THEN 0 ELSE TokLen(Head(bs)) + BLen(Tail(bs))

Front(s) == SubSeq(s, 1, Len(s) - 1)
Last(s) == s[Len(s)]

Joinable(s, t) == s.x = t.x /\ (IsRaw(s) \/ s.b = t.a)
Join(s, t) == IF IsRaw(s) THEN [x |-> s.x, a |-> 0, b |-> s.b + t.b]
                          ELSE [x |-> s.x, a |-> s.a, b |-> t.b]

\* Vec::extend_from_slice: concatenation
Cat(p, q) ==
    IF p = <<>> THEN q
    ELSE IF q = <<>> THEN p
    ELSE IF Joinable(Last(p), Head(q))
         THEN Front(p) \o <<Join(Last(p), Head(q))>> \o Tail(q)
         ELSE p \o q

SubTok(t, i, j) == IF IsRaw(t) THEN [x |-> t.x, a |-> 0, b |-> j - i]
                               ELSE [x |-> t.x, a |-> t.a + i, b |-> t.a + j]

\* &data[n..] for n <= len
RECURSIVE Drop(_, _)
Drop(bs, n) ==
    IF n = 0 \/ bs = <<>> THEN bs
    ELSE LET h == Head(bs)
             l == TokLen(h)
         IN  IF n >= l THEN Drop(Tail(bs), n - l)
             ELSE <<SubTok(h, n, l)>> \o Tail(bs)

\* &data[..n] for n <= len
RECURSIVE Take(_, _)
Take(bs, n) ==
    IF n = 0 \/ bs = <<>> THEN <<>>
    ELSE LET h == Head(bs)
             l == TokLen(h)
         IN  IF n >= l THEN <<h>> \o Take(Tail(bs), n - l)
             ELSE <<SubTok(h, 0, n)>>

\* &data[i..j]; the caller has established i <= j <= len
Slice(bs, i, j) == Take(Drop(bs, i), j - i)

\* the bounds check Rust performs on data[i..j]
InBounds(bs, i, j) == 0 <= i /\ i <= j /\ j <= BLen(bs)

Run(v, n) == IF n = 0 THEN <<>> ELSE <<[x |-> <<"z", v>>, a |-> 0, b |-> n]>>
Byte(v) == Run(v, 1)
ObjBytes(o) == <<[x |-> o, a |-> 0, b |-> ObjLen(o)]>>

\* u32::to_le_bytes / u64::to_le_bytes: k little-endian bytes of n
RECURSIVE ToLE(_, _)
ToLE(n, k) == IF k = 0 THEN <<>> ELSE Cat(Byte(n % 256), ToLE(n \div 256, k - 1))

\* An opaque byte has a fixed numeric value that the model does not know: it
\* is read as 165
\* Numbers read from the wire saturate at the largest number of the model
SAT == (64 * 256 * 256 * 256 - 1) * 2 + 1

RECURSIVE FromLE(_)
FromLE(bs) ==
    IF bs = <<>> THEN 0
    ELSE LET h == Head(bs)
             v == IF IsRaw(h) THEN h.x[2] ELSE 165
             rest == FromLE(Drop(bs, 1))
         IN  IF rest >= (SAT - 255) \div 256 THEN SAT ELSE v + 256 * rest

-----------------------------------------------------------------------------
(* Envelope codec: src/proof/mod.rs                                        *)

Proof(version, scheme, proof, commitment) ==
    [version |-> version, scheme |-> scheme, proof |-> proof, commitment |-> commitment]

\* Proof::new
ProofNew(scheme, proof, commitment) == Proof(PROOF_VERSION, scheme, proof, commitment)

None == [some |-> FALSE, val |-> Proof(0, 0, <<>>, <<>>)]
Some(p) == [some |-> TRUE, val |-> p]

\* the two length fields are written in the wrong order
to_bytes_lenswap(p) ==
    Cat(Byte(p.version),
    Cat(Byte(p.scheme),
    Cat(ToLE(BLen(p.commitment), 4),
    Cat(ToLE(BLen(p.proof), 4),
    Cat(p.proof, p.commitment)))))

\* Proof::to_bytes.  The refusal of payloads longer than u32::MAX is beyond
\* the numbers of the model: every length here is below 2^31.
to_bytes(p) ==
    Cat(Byte(p.version),
    Cat(Byte(p.scheme),
    Cat(ToLE(BLen(p.proof), 4),
    Cat(ToLE(BLen(p.commitment), 4),
    Cat(p.proof, p.commitment)))))

\* the length check accepts any input that is long enough
from_bytes_prefix(data) ==
    IF BLen(data) > MAX_PROOF_TOTAL_BYTES THEN None
    ELSE IF BLen(data) < HEADER_LEN THEN None
    ELSE With(FromLE(Slice(data, 0, 1)), LAMBDA version :
         With(FromLE(Slice(data, 1, 2)), LAMBDA scheme :
         With(FromLE(Slice(data, 2, 6)), LAMBDA proof_len :
         With(FromLE(Slice(data, 6, 10)), LAMBDA comm_len :
             IF proof_len > MAX_PROOF_PAYLOAD_BYTES \/ comm_len > MAX_COMMITMENT_BYTES
             THEN None
             ELSE IF BLen(data) < HEADER_LEN + proof_len + comm_len THEN None
             ELSE Some(Proof(version, scheme,
                             Slice(data, HEADER_LEN, HEADER_LEN + proof_len),
                             Drop(data, HEADER_LEN + proof_len)))))))

\* Proof::from_bytes
from_bytes(data) ==
    IF BLen(data) > MAX_PROOF_TOTAL_BYTES THEN None
    ELSE IF BLen(data) < HEADER_LEN THEN None
    ELSE With(FromLE(Slice(data, 0, 1)), LAMBDA version :
         With(FromLE(Slice(data, 1, 2)), LAMBDA scheme :
         With(FromLE(Slice(data, 2, 6)), LAMBDA proof_len :
         With(FromLE(Slice(data, 6, 10)), LAMBDA comm_len :
             IF proof_len > MAX_PROOF_PAYLOAD_BYTES \/ comm_len > MAX_COMMITMENT_BYTES
             THEN None
             ELSE IF BLen(data) # HEADER_LEN + proof_len + comm_len THEN None
             ELSE Some(Proof(version, scheme,
                             Slice(data, HEADER_LEN, HEADER_LEN + proof_len),
                             Drop(data, HEADER_LEN + proof_len)))))))

\* proof_helpers::create_proof
create_proof(scheme_id, proof_bytes, commitment) ==
    to_bytes(ProofNew(scheme_id, proof_bytes, commitment))


-----------------------------------------------------------------------------
(* External cryptography, idealised.                                       *)
(*   <<"pt", v, r>>          the Ristretto point v*B + r*B_blinding        *)
(*   <<"rp", label, v, r>>   a 64-bit range proof, made under the          *)
(*                           transcript label, of the opening (v, r)       *)
(*   <<"sha", bytes>>        the SHA-256 digest of bytes                   *)
(*   <<"fs", vc, ic, set>>   the Merlin challenge of a membership          *)
(*                           transcript                                    *)
(*   <<"resp", ri, c, rv>>   the scalar ri + c * rv                        *)
(*   <<"g16", circuit, pub>> a Groth16 proof for the public inputs pub     *)
(*   <<"stark", old, new>>   a STARK proof of the trace from old to new    *)
(* Binding and soundness are assumed: distinct objects have distinct       *)
(* bytes, and a proof verifies only for the statement it was made for.     *)

U64_MAX == SAT

\* usize arithmetic on a 64-bit target never wraps for the operands met here
\* (a u32 times 8 or 32, plus 4); the model keeps the result exact up to
\* SAT and at SAT beyond, which exceeds every length of the model
SatMul(m, n) == IF m > SAT \div n THEN SAT ELSE m * n
SatAdd(m, n) == IF m > SAT - n THEN SAT ELSE m + n

\* u64::checked_add
CheckedAdd(m, n) == IF m > U64_MAX - n THEN [some |-> FALSE, val |-> 0]
                                       ELSE [some |-> TRUE, val |-> m + n]

Point(v, r) == <<"pt", v, r>>

\* PedersenGens::commit(value, blinding)
PedersenCommit(v, r) == Point(v, r)

\* RistrettoPoint::compress; the identity compresses to 32 zero bytes
Compress(pt) == IF pt[2] = 0 /\ pt[3] = 0 THEN Run(0, POINT_LEN) ELSE ObjBytes(pt)

IsWhole(bs, kind) ==
    /\ Len(bs) = 1
    /\ bs[1].x[1] = kind
    /\ bs[1].a = 0
    /\ bs[1].b = ObjLen(bs[1].x)

\* CompressedRistretto::decompress: only the encodings of points decompress
Decompresses(bs) == bs = Run(0, POINT_LEN) \/ IsWhole(bs, "pt")
Decompress(bs) == IF bs = Run(0, POINT_LEN) THEN Point(0, 0) ELSE bs[1].x

PointSub(p, q) == Point(p[2] - q[2], p[3] - q[3])
\* Scalar::from(k) * pc_gens.B
ScalarMulB(k) == Point(k, 0)

\* RangeProof::prove_single(bp_gens, pc_gens, transcript, v, blinding, 64)
RangeProofObj(label, v, r) == <<"rp", label, v, r>>

\* RangeProof::from_bytes
RangeProofParses(bs) == IsWhole(bs, "rp")

\* RangeProof::verify_single(bp_gens, pc_gens, transcript, commitment, 64)
VerifySingle(rp_bytes, label, commit_bytes) ==
    LET rp == rp_bytes[1].x
    IN  /\ rp[2] = label
        /\ rp[3] >= 0
        /\ commit_bytes = Compress(Point(rp[3], rp[4]))

\* Sha256::new / update / finalize
Sha256(bs) == ObjBytes(<<"sha", bs>>)

\* b"COMMIT:"
MARKER == Cat(Byte(67), Cat(Byte(79), Cat(Run(77, 2), Cat(Byte(73), Cat(Byte(84), Byte(58))))))
MARKER_LEN == 7

RECURSIVE Offset(_, _)
Offset(bs, k) == IF k <= 1 THEN 0 ELSE TokLen(bs[k - 1]) + Offset(bs, k - 1)

RawTok(t, v) == IsRaw(t) /\ t.x[2] = v

\* the marker begins in token k (at its last byte)
MarkerAtTok(bs, k) ==
    /\ k + 5 <= Len(bs)
    /\ RawTok(bs[k], 67)
    /\ RawTok(bs[k + 1], 79) /\ bs[k + 1].b = 1
    /\ RawTok(bs[k + 2], 77) /\ bs[k + 2].b = 2
    /\ RawTok(bs[k + 3], 73) /\ bs[k + 3].b = 1
    /\ RawTok(bs[k + 4], 84) /\ bs[k + 4].b = 1
    /\ RawTok(bs[k + 5], 58)

\* data.windows(7).position(|w| w == b"COMMIT:"); -1 stands for None
MarkerPos(bs) ==
    LET hits == {k \in 1..Len(bs) : MarkerAtTok(bs, k)}
    IN  IF hits = {} THEN -1
        ELSE LET k == CHOOSE h \in hits : \A g \in hits : h <= g
             IN  Offset(bs, k) + TokLen(bs[k]) - 1

-----------------------------------------------------------------------------
(* Bulletproofs engine: src/backend/bulletproofs.rs                        *)

Ok(bytes) == [ok |-> TRUE, bytes |-> bytes]
Err == [ok |-> FALSE, bytes |-> <<>>]

\* a length-prefixed range proof at the head of the reader:
\*   if reader.len() < 4 { return false; }  rp_len = u32(reader[0..4]);
\*   if reader.len() < rp_len { return false; }  RangeProof::from_bytes(..)?
ReadRangeProof(reader) ==
    IF BLen(reader) < 4 THEN [ok |-> FALSE, rp |-> <<>>, rest |-> <<>>]
    ELSE With(FromLE(Slice(reader, 0, 4)), LAMBDA rp_len :
         With(Drop(reader, 4), LAMBDA r1 :
             IF BLen(r1) < rp_len THEN [ok |-> FALSE, rp |-> <<>>, rest |-> <<>>]
             ELSE IF ~RangeProofParses(Take(r1, rp_len))
                  THEN [ok |-> FALSE, rp |-> <<>>, rest |-> <<>>]
                  ELSE [ok |-> TRUE, rp |-> Take(r1, rp_len), rest |-> Drop(r1, rp_len)]))

\* len(u32 LE) || range proof bytes
WriteRangeProof(rp) == Cat(ToLE(BLen(ObjBytes(rp)), 4), ObjBytes(rp))

\* BulletproofsBackend::prove_range_with_bounds; blinding is the OsRng draw
prove_range_with_bounds(value, min, max, blinding) ==
    IF value < min \/ value > max THEN Err
    ELSE With(Compress(PedersenCommit(value, blinding)), LAMBDA value_commit :
         With(value - min, LAMBDA diff_min :
         With(RangeProofObj("libzkp_range_min", diff_min, blinding), LAMBDA rp_min :
         With(Compress(PedersenCommit(diff_min, blinding)), LAMBDA diff_min_commit :
         With(max - value, LAMBDA diff_max :
         With(RangeProofObj("libzkp_range_max", diff_max, 0 - blinding), LAMBDA rp_max :
         With(Compress(PedersenCommit(diff_max, 0 - blinding)), LAMBDA diff_max_commit :
         With(Cat(ToLE(min, 8),
                 Cat(ToLE(max, 8),
                 Cat(WriteRangeProof(rp_min),
                 Cat(WriteRangeProof(rp_max),
                 Cat(diff_min_commit, diff_max_commit))))), LAMBDA proof_bytes :
             Ok(Cat(proof_bytes, Cat(MARKER, value_commit)))))))))))

\* BulletproofsBackend::verify_range_with_bounds
verify_range_with_bounds(proof_data, min, max) ==
    With(MarkerPos(proof_data), LAMBDA commit_pos :
    With(Take(proof_data, commit_pos), LAMBDA proof_bytes :
    With(commit_pos + MARKER_LEN, LAMBDA commit_start :
    IF commit_pos = -1 THEN FALSE
    ELSE IF BLen(proof_data) < commit_start + 32 THEN FALSE
    ELSE With(Slice(proof_data, commit_start, commit_start + 32), LAMBDA value_commit :
    IF ~Decompresses(value_commit) THEN FALSE
    ELSE IF BLen(proof_bytes) < 16 THEN FALSE
    ELSE With(FromLE(Slice(proof_bytes, 0, 8)), LAMBDA proof_min :
         With(FromLE(Slice(proof_bytes, 8, 16)), LAMBDA proof_max :
    IF proof_min # min \/ proof_max # max THEN FALSE
    ELSE With(ReadRangeProof(Drop(proof_bytes, 16)), LAMBDA rd_min :
    IF ~rd_min.ok THEN FALSE
    ELSE With(ReadRangeProof(rd_min.rest), LAMBDA rd_max :
    IF ~rd_max.ok THEN FALSE
    ELSE IF BLen(rd_max.rest) < 64 THEN FALSE
    ELSE With(Slice(rd_max.rest, 0, 32), LAMBDA diff_min_commit :
         With(Slice(rd_max.rest, 32, 64), LAMBDA diff_max_commit :
         With(Decompress(value_commit), LAMBDA value_commit_point :
         With(Compress(PointSub(value_commit_point, ScalarMulB(min))), LAMBDA expected_min_commit :
         With(Compress(PointSub(ScalarMulB(max), value_commit_point)), LAMBDA expected_max_commit :
    IF expected_min_commit # diff_min_commit \/ expected_max_commit # diff_max_commit THEN FALSE
    ELSE IF ~VerifySingle(rd_min.rp, "libzkp_range_min", expected_min_commit) THEN FALSE
    ELSE IF ~VerifySingle(rd_max.rp, "libzkp_range_max", expected_max_commit) THEN FALSE
    ELSE TRUE)))))))))))))

\* checked sum of the values; None on overflow
RECURSIVE CheckedSum(_)
CheckedSum(values) ==
    IF values = <<>> THEN [some |-> TRUE, val |-> 0]
    ELSE LET acc == CheckedSum(Front(values))
         IN  IF ~acc.some THEN acc ELSE CheckedAdd(acc.val, Last(values))

\* BulletproofsBackend::prove_threshold; sum_blinding is the OsRng draw
bp_prove_threshold(values, threshold, sum_blinding) ==
    IF values = <<>> THEN Err
    ELSE With(CheckedSum(values), LAMBDA sum :
    IF ~sum.some THEN Err
    ELSE IF sum.val < threshold THEN Err
    ELSE With(Compress(PedersenCommit(sum.val, sum_blinding)), LAMBDA sum_commit :
         With(sum.val - threshold, LAMBDA diff :
         With(RangeProofObj("libzkp_threshold", diff, sum_blinding), LAMBDA range_proof :
         With(Compress(PedersenCommit(diff, sum_blinding)), LAMBDA diff_commit :
         With(Cat(ToLE(threshold, 8), Cat(WriteRangeProof(range_proof), diff_commit)), LAMBDA proof_bytes :
             Ok(Cat(proof_bytes, Cat(MARKER, sum_commit)))))))))

\* BulletproofsBackend::verify_threshold
bp_verify_threshold(proof_data, threshold) ==
    With(MarkerPos(proof_data), LAMBDA commit_pos :
    With(Take(proof_data, commit_pos), LAMBDA proof_bytes :
    With(commit_pos + MARKER_LEN, LAMBDA commit_start :
    IF commit_pos = -1 THEN FALSE
    ELSE IF BLen(proof_data) < commit_start + 32 THEN FALSE
    ELSE IF BLen(proof_bytes) < 8 THEN FALSE
    ELSE With(FromLE(Slice(proof_bytes, 0, 8)), LAMBDA proof_threshold :
    IF proof_threshold # threshold THEN FALSE
    ELSE With(ReadRangeProof(Drop(proof_bytes, 8)), LAMBDA rd :
    IF ~rd.ok THEN FALSE
    ELSE IF BLen(rd.rest) < 32 THEN FALSE
    ELSE With(Slice(rd.rest, 0, 32), LAMBDA diff_commit :
         With(Slice(proof_data, commit_start, commit_start + 32), LAMBDA sum_commit :
    IF ~Decompresses(sum_commit) THEN FALSE
    ELSE With(Compress(PointSub(Decompress(sum_commit), ScalarMulB(threshold))), LAMBDA expected_diff_commit :
    IF expected_diff_commit # diff_commit THEN FALSE
    ELSE VerifySingle(rd.rp, "libzkp_threshold", expected_diff_commit)))))))))

\* the value commitments C_i = commit(d_i, r_i), concatenated
RECURSIVE ValueCommits(_, _)
ValueCommits(data, blindings) ==
    IF data = <<>> THEN <<>>
    ELSE Cat(ValueCommits(Front(data), Front(blindings)),
             Compress(PedersenCommit(Last(data), Last(blindings))))

\* for i in 1..n: the range proofs of d_i - d_(i-1) under r_i - r_(i-1)
RECURSIVE DiffProofs(_, _, _)
DiffProofs(data, blindings, n) ==
    IF n <= 1 THEN <<>>
    ELSE Cat(DiffProofs(data, blindings, n - 1),
             WriteRangeProof(RangeProofObj("libzkp_consistency",
                                           data[n] - data[n - 1],
                                           blindings[n] - blindings[n - 1])))

RECURSIVE DiffCommits(_, _, _)
DiffCommits(data, blindings, n) ==
    IF n <= 1 THEN <<>>
    ELSE Cat(DiffCommits(data, blindings, n - 1),
             Compress(PedersenCommit(data[n] - data[n - 1], blindings[n] - blindings[n - 1])))

\* BulletproofsBackend::prove_consistency; blindings are the OsRng draws
bp_prove_consistency(data, blindings) ==
    IF data = <<>> THEN Err
    ELSE IF \E i \in 1..(Len(data) - 1) : data[i] > data[i + 1] THEN Err
    ELSE With(Cat(ToLE(Len(data), 4),
                 Cat(ValueCommits(data, blindings),
                 Cat(DiffProofs(data, blindings, Len(data)),
                     DiffCommits(data, blindings, Len(data))))), LAMBDA proof_bytes :
         With(ValueCommits(data, blindings), LAMBDA commitment_hash :
             Ok(Cat(proof_bytes, Cat(MARKER, commitment_hash)))))

\* the n-1 length-prefixed range proofs, read into memory
RECURSIVE ReadRangeProofs(_, _)
ReadRangeProofs(reader, count) ==
    IF count = 0 THEN [ok |-> TRUE, rps |-> <<>>, rest |-> reader]
    ELSE With(ReadRangeProof(reader), LAMBDA rd :
         IF ~rd.ok THEN [ok |-> FALSE, rps |-> <<>>, rest |-> <<>>]
         ELSE With(ReadRangeProofs(rd.rest, count - 1), LAMBDA more :
              IF ~more.ok THEN more
              ELSE [ok |-> TRUE, rps |-> <<rd.rp>> \o more.rps, rest |-> more.rest]))

\* the loop "for i in 1..num_values" that checks each difference
RECURSIVE CheckDiffs(_, _, _, _, _)
CheckDiffs(commits, rps, reader, i, num_values) ==
    IF i >= num_values THEN TRUE
    ELSE IF BLen(reader) < 32 THEN FALSE
    ELSE With(Slice(reader, 0, 32), LAMBDA diff_commit :
         With(Slice(commits, 32 * i, 32 * i + 32), LAMBDA commit_i :
         With(Slice(commits, 32 * (i - 1), 32 * i), LAMBDA commit_prev :
             IF ~Decompresses(commit_i) \/ ~Decompresses(commit_prev) THEN FALSE
             ELSE IF Compress(PointSub(Decompress(commit_i), Decompress(commit_prev))) # diff_commit
                  THEN FALSE
             ELSE IF ~VerifySingle(rps[i], "libzkp_consistency", diff_commit) THEN FALSE
             ELSE CheckDiffs(commits, rps, Drop(reader, 32), i + 1, num_values))))

\* BulletproofsBackend::verify_consistency
bp_verify_consistency(proof_data) ==
    With(MarkerPos(proof_data), LAMBDA commit_pos :
    With(Take(proof_data, commit_pos), LAMBDA proof_bytes :
    With(commit_pos + MARKER_LEN, LAMBDA commit_start :
    With(Drop(proof_data, commit_start), LAMBDA commitment_hash :
    IF commit_pos = -1 THEN FALSE
    ELSE IF BLen(proof_bytes) < 4 THEN FALSE
    ELSE With(FromLE(Slice(proof_bytes, 0, 4)), LAMBDA num_values :
         With(Drop(proof_bytes, 4), LAMBDA r1 :
    IF num_values = 0 THEN FALSE
    ELSE IF BLen(r1) < SatMul(num_values, 32) THEN FALSE
    ELSE With(Take(r1, num_values * 32), LAMBDA expected_commitment :
         With(Drop(r1, num_values * 32), LAMBDA r2 :
    IF commitment_hash # expected_commitment THEN FALSE
    ELSE With(ReadRangeProofs(r2, num_values - 1), LAMBDA rd :
    IF ~rd.ok THEN FALSE
    ELSE CheckDiffs(expected_commitment, rd.rps, rd.rest, 1, num_values))))))))))

\* the set values, 8 little-endian bytes each
RECURSIVE SetBytes(_)
SetBytes(set) == IF set = <<>> THEN <<>> ELSE Cat(SetBytes(Front(set)), ToLE(Last(set), 8))

\* count u64 values read from bs, 8 bytes each
RECURSIVE ReadU64s(_, _)
ReadU64s(bs, count) ==
    IF count = 0 THEN <<>> ELSE <<FromLE(Take(bs, 8))>> \o ReadU64s(Drop(bs, 8), count - 1)

Elems(seq) == {seq[i] : i \in 1..Len(seq)}

\* BulletproofsBackend::verify_set_membership
bp_verify_set_membership(proof_data, set) ==
    With(MarkerPos(proof_data), LAMBDA commit_pos :
    With(Take(proof_data, commit_pos), LAMBDA proof_bytes :
    With(commit_pos + MARKER_LEN, LAMBDA commit_start :
    IF commit_pos = -1 THEN FALSE
    ELSE IF BLen(proof_data) < commit_start + 32 THEN FALSE
    ELSE With(Slice(proof_data, commit_start, commit_start + 32), LAMBDA value_commit :
    IF ~Decompresses(value_commit) THEN FALSE
    ELSE IF BLen(proof_bytes) < 4 THEN FALSE
    ELSE With(FromLE(Slice(proof_bytes, 0, 4)), LAMBDA set_size :
         With(Drop(proof_bytes, 4), LAMBDA r1 :
    IF set_size = 0 \/ set_size # Len(set) THEN FALSE
    ELSE IF BLen(r1) < SatMul(set_size, 8) THEN FALSE
    ELSE With(ReadU64s(r1, set_size), LAMBDA proof_set :
         With(Drop(r1, set_size * 8), LAMBDA r2 :
    IF Elems(proof_set) # Elems(set) THEN FALSE
    ELSE IF BLen(r2) < 32 THEN FALSE
    ELSE With(Slice(r2, 0, 32), LAMBDA index_commit :
         With(Drop(r2, 32), LAMBDA r3 :
    IF BLen(r3) < 32 THEN FALSE
    ELSE With(Slice(r3, 0, 32), LAMBDA challenge :
         With(Drop(r3, 32), LAMBDA r4 :
    IF BLen(r4) < 32 THEN FALSE
    ELSE With(Slice(r4, 0, 32), LAMBDA response :
         With(ObjBytes(<<"fs", value_commit, index_commit, proof_set>>), LAMBDA expected_challenge :
    IF challenge # expected_challenge THEN FALSE
    ELSE IF ~Decompresses(index_commit) THEN FALSE
    ELSE With(Decompress(index_commit), LAMBDA ic :
         With(Decompress(value_commit), LAMBDA vc :
             /\ response = ObjBytes(<<"resp", ic[3], challenge, vc[3]>>)
             /\ \E i \in 1..Len(proof_set) : ic[2] = i - 1 /\ vc[2] = proof_set[i]))))))))))))))))

-----------------------------------------------------------------------------
(* Groth16 engine: src/backend/snark.rs; STARK engine: src/backend/stark.rs *)

MAX_SET_SIZE == 64

B2S(b) == IF b THEN "true" ELSE "false"

\* ark_groth16::Proof::deserialize_uncompressed reads the proof from the
\* head of the input
Groth16Parses(bs) == BLen(bs) >= GROTH16_PROOF_LEN /\ IsWhole(Take(bs, GROTH16_PROOF_LEN), "g16")
Groth16Obj(bs) == bs[1].x

\* OnceLock::get_or_init on a setup cell: "unset" until the first use, then
\* "ok" or "err" for ever; gen is the outcome of load_or_generate_*_setup
get_or_init(cell, gen) == IF cell = "unset" THEN gen ELSE cell

\* the outcome of a call that may initialise a setup cell
Out(res, cell) == [res |-> res, cell |-> cell]

\* SnarkBackend::prove_equality_zk; cell is UNIVERSAL_SETUP
prove_equality_zk(a, b, hash_input, cell, gen) ==
    IF a # b THEN Out(<<>>, cell)
    ELSE With(get_or_init(cell, gen), LAMBDA setup :
             IF setup = "err" THEN Out(<<>>, setup)
             ELSE Out(ObjBytes(<<"g16", "equality", hash_input>>), setup))

\* SnarkBackend::prove (ZkpBackend)
snark_prove(data, cell, gen) ==
    IF BLen(data) # 48 THEN Out(<<>>, cell)
    ELSE prove_equality_zk(FromLE(Slice(data, 0, 8)), FromLE(Slice(data, 8, 16)),
                           Slice(data, 16, 48), cell, gen)

\* SnarkBackend::verify_equality_zk and SnarkBackend::verify (ZkpBackend)
verify_equality_zk(proof_data, hash_input, cell, gen) ==
    IF ~Groth16Parses(proof_data) THEN Out("false", cell)
    ELSE With(get_or_init(cell, gen), LAMBDA setup :
    IF setup = "err" THEN Out("false", setup)
    ELSE IF BLen(hash_input) # 32 THEN Out("false", setup)
    ELSE Out(B2S(Groth16Obj(proof_data) = <<"g16", "equality", hash_input>>), setup))

\* SnarkBackend::prove_membership_zk; cell is MEMBERSHIP_SETUP
prove_membership_zk(value, set, commitment, cell, gen) ==
    IF set = <<>> \/ Len(set) > MAX_SET_SIZE THEN Out(<<>>, cell)
    ELSE IF value \notin Elems(set) THEN Out(<<>>, cell)
    ELSE With(get_or_init(cell, gen), LAMBDA setup :
             IF setup = "err" THEN Out(<<>>, setup)
             ELSE Out(ObjBytes(<<"g16", "membership", commitment, set>>), setup))

\* SnarkBackend::verify_membership_zk
verify_membership_zk(proof_data, set, commitment, cell, gen) ==
    IF set = <<>> \/ Len(set) > MAX_SET_SIZE THEN Out("false", cell)
    ELSE IF BLen(commitment) # 32 THEN Out("false", cell)
    ELSE IF ~Groth16Parses(proof_data) THEN Out("false", cell)
    ELSE With(get_or_init(cell, gen), LAMBDA setup :
    IF setup = "err" THEN Out("false", setup)
    ELSE Out(B2S(Groth16Obj(proof_data) = <<"g16", "membership", commitment, set>>), setup))

\* StarkBackend::prove (through StarkBackend::prove_improvement)
stark_prove(data) ==
    IF BLen(data) # 16 THEN <<>>
    ELSE With(FromLE(Slice(data, 0, 8)), LAMBDA old :
         With(FromLE(Slice(data, 8, 16)), LAMBDA new :
             IF new <= old THEN <<>> ELSE ObjBytes(<<"stark", old, new>>)))

\* StarkBackend::verify (through StarkBackend::verify_improvement)
stark_verify(proof, data) ==
    IF BLen(data) # 16 THEN FALSE
    ELSE With(FromLE(Slice(data, 0, 8)), LAMBDA old :
         With(FromLE(Slice(data, 8, 16)), LAMBDA new :
             /\ IsWhole(proof, "stark")
             /\ proof[1].x = <<"stark", old, new>>))

-----------------------------------------------------------------------------
(* Helpers: src/utils/proof_helpers.rs, commitment.rs, validation.rs       *)

\* PyResult<Vec<u8>>: the envelope, or the kind of the error raised
POk(bytes) == [ok |-> TRUE, bytes |-> bytes, err |-> "none"]
PErr(kind) == [ok |-> FALSE, bytes |-> <<>>, err |-> kind]

\* the scheme check is missing
parse_and_validate_proof_anyscheme(proof_bytes, expected_scheme) ==
    With(from_bytes(proof_bytes), LAMBDA proof :
        IF ~proof.some THEN None
        ELSE IF proof.val.version # PROOF_VERSION THEN None
        ELSE proof)

\* proof_helpers::parse_and_validate_proof; None stands for the Err results
parse_and_validate_proof(proof_bytes, expected_scheme) ==
    With(from_bytes(proof_bytes), LAMBDA proof :
        IF ~proof.some THEN None
        ELSE IF proof.val.version # PROOF_VERSION THEN None
        ELSE IF proof.val.scheme # expected_scheme THEN None
        ELSE proof)

\* proof_helpers::extract_bulletproofs_components
extract_bulletproofs_components(backend_proof) ==
    With(MarkerPos(backend_proof), LAMBDA commit_pos :
    With(commit_pos + MARKER_LEN, LAMBDA commit_start :
        IF commit_pos = -1 THEN [ok |-> FALSE, proof |-> <<>>, commitment |-> <<>>]
        ELSE IF BLen(backend_proof) < commit_start + 32
             THEN [ok |-> FALSE, proof |-> <<>>, commitment |-> <<>>]
             ELSE [ok |-> TRUE,
                   proof |-> Take(backend_proof, commit_pos),
                   commitment |-> Slice(backend_proof, commit_start, commit_start + 32)]))

\* proof_helpers::reconstruct_bulletproofs_proof
reconstruct_bulletproofs_proof(proof_bytes, commitment) ==
    Cat(proof_bytes, Cat(MARKER, commitment))

\* proof_helpers::validate_standard_commitment
validate_standard_commitment(commitment) == BLen(commitment) = 32

\* commitment::commit_value
commit_value(value) == Sha256(ToLE(value, 8))

\* commitment::commit_improvement (the caller has established new > old)
commit_improvement(old, new) == Cat(ToLE(new - old, 8), ToLE(new, 8))

\* the old value is not compared with the committed pair
validate_improvement_commitment_unbound(commitment, old) ==
    IF BLen(commitment) # 16 THEN [some |-> FALSE, val |-> 0]
    ELSE With(FromLE(Slice(commitment, 0, 8)), LAMBDA diff :
         With(FromLE(Slice(commitment, 8, 16)), LAMBDA new :
             IF diff = 0 THEN [some |-> FALSE, val |-> 0]
             ELSE [some |-> TRUE, val |-> new]))

\* commitment::validate_improvement_commitment over extract_improvement_values
validate_improvement_commitment(commitment, old) ==
    IF BLen(commitment) # 16 THEN [some |-> FALSE, val |-> 0]
    ELSE With(FromLE(Slice(commitment, 0, 8)), LAMBDA diff :
         With(FromLE(Slice(commitment, 8, 16)), LAMBDA new :
         With(CheckedAdd(old, diff), LAMBDA calculated_new :
             IF diff = 0 THEN [some |-> FALSE, val |-> 0]
             ELSE IF ~calculated_new.some THEN [some |-> FALSE, val |-> 0]
             ELSE IF new # calculated_new.val THEN [some |-> FALSE, val |-> 0]
             ELSE [some |-> TRUE, val |-> new])))

\* validation::validate_range_params
validate_range_params_lax(value, min, max) == ~(min > max)
validate_range_params(value, min, max) == ~(min > max) /\ ~(value < min \/ value > max)

\* validation::validate_improvement_params
validate_improvement_params(old, new) == ~(new <= old)

\* sort_unstable on a Vec<u64>
RECURSIVE Insert(_, _)
Insert(sorted, v) ==
    IF sorted = <<>> THEN <<v>>
    ELSE IF v <= Head(sorted) THEN <<v>> \o sorted
    ELSE <<Head(sorted)>> \o Insert(Tail(sorted), v)

\* the vector is compared as it stands
SortSkipped(seq) == seq

RECURSIVE SortUnstable(_)
SortUnstable(seq) == IF seq = <<>> THEN <<>> ELSE Insert(SortUnstable(Tail(seq)), Head(seq))

-----------------------------------------------------------------------------
(* Predicate facade: src/proof/*.rs                                        *)

RANGE_SCHEME_ID == 1
EQUALITY_SCHEME_ID == 2
THRESHOLD_SCHEME_ID == 3
MEMBERSHIP_SCHEME_ID == 4
IMPROVEMENT_SCHEME_ID == 5
CONSISTENCY_SCHEME_ID == 6

\* the backend output is split at the marker and framed into an envelope
FrameBulletproofs(scheme_id, backend_proof) ==
    With(extract_bulletproofs_components(backend_proof), LAMBDA parts :
        IF ~parts.ok THEN PErr("InvalidProofFormat")
        ELSE POk(create_proof(scheme_id, parts.proof, parts.commitment)))

\* range_proof::prove_range
prove_range(value, min, max, blinding) ==
    IF ~validate_range_params(value, min, max) THEN PErr("InvalidInput")
    ELSE With(prove_range_with_bounds(value, min, max, blinding), LAMBDA backend_proof :
             IF ~backend_proof.ok THEN PErr("BackendError")
             ELSE FrameBulletproofs(RANGE_SCHEME_ID, backend_proof.bytes))

\* the bounds are taken from the payload instead of the caller
verify_range_embedded(proof, min, max) ==
    IF min > max THEN "false"
    ELSE With(parse_and_validate_proof(proof, RANGE_SCHEME_ID), LAMBDA p :
    IF ~p.some THEN "false"
    ELSE IF ~validate_standard_commitment(p.val.commitment) THEN "false"
    ELSE B2S(verify_range_with_bounds(
                 reconstruct_bulletproofs_proof(p.val.proof, p.val.commitment),
                 FromLE(Slice(p.val.proof, 0, 8)), FromLE(Slice(p.val.proof, 8, 16)))))

\* range_proof::verify_range
verify_range(proof, min, max) ==
    IF min > max THEN "false"
    ELSE With(parse_and_validate_proof(proof, RANGE_SCHEME_ID), LAMBDA p :
    IF ~p.some THEN "false"
    ELSE IF ~validate_standard_commitment(p.val.commitment) THEN "false"
    ELSE B2S(verify_range_with_bounds(
                 reconstruct_bulletproofs_proof(p.val.proof, p.val.commitment), min, max)))

\* equality_proof::prove_equality
prove_equality(val1, val2, cell, gen) ==
    IF val1 # val2 THEN Out(PErr("PyValueError"), cell)
    ELSE With(Sha256(ToLE(val1, 8)), LAMBDA commitment :
         With(Cat(ToLE(val1, 8), Cat(ToLE(val2, 8), commitment)), LAMBDA data :
         With(snark_prove(data, cell, gen), LAMBDA snark_proof :
             IF snark_proof.res = <<>> THEN Out(PErr("PyRuntimeError"), snark_proof.cell)
             ELSE Out(POk(to_bytes(ProofNew(EQUALITY_SCHEME_ID, snark_proof.res, commitment))),
                      snark_proof.cell))))

\* equality_proof::verify_equality
verify_equality(proof, val1, val2, cell, gen) ==
    With(from_bytes(proof), LAMBDA p :
    IF ~p.some THEN Out("false", cell)
    ELSE IF p.val.version # PROOF_VERSION \/ p.val.scheme # EQUALITY_SCHEME_ID
         THEN Out("false", cell)
    ELSE IF val1 # val2 THEN Out("false", cell)
    ELSE With(Sha256(ToLE(val1, 8)), LAMBDA expected_commitment :
    IF p.val.commitment # expected_commitment THEN Out("false", cell)
    ELSE verify_equality_zk(p.val.proof, expected_commitment, cell, gen)))

\* equality_proof::verify_equality_with_commitment
verify_equality_with_commitment(proof, expected_commitment, cell, gen) ==
    With(from_bytes(proof), LAMBDA p :
    IF ~p.some THEN Out("false", cell)
    ELSE IF p.val.version # PROOF_VERSION \/ p.val.scheme # EQUALITY_SCHEME_ID
         THEN Out("false", cell)
    ELSE IF BLen(expected_commitment) # 32 THEN Out("false", cell)
    ELSE IF p.val.commitment # expected_commitment THEN Out("false", cell)
    ELSE verify_equality_zk(p.val.proof, expected_commitment, cell, gen))

\* threshold_proof::prove_threshold
prove_threshold(values, threshold, blinding) ==
    With(bp_prove_threshold(values, threshold, blinding), LAMBDA backend_proof :
        IF ~backend_proof.ok THEN PErr("PyValueError")
        ELSE FrameBulletproofs(THRESHOLD_SCHEME_ID, backend_proof.bytes))

\* the threshold is taken from the payload instead of the caller
verify_threshold_embedded(proof, threshold) ==
    With(parse_and_validate_proof(proof, THRESHOLD_SCHEME_ID), LAMBDA p :
    IF ~p.some THEN "false"
    ELSE IF ~validate_standard_commitment(p.val.commitment) THEN "false"
    ELSE B2S(bp_verify_threshold(
                 reconstruct_bulletproofs_proof(p.val.proof, p.val.commitment),
                 FromLE(Take(p.val.proof, 8)))))

\* threshold_proof::verify_threshold
verify_threshold(proof, threshold) ==
    With(parse_and_validate_proof(proof, THRESHOLD_SCHEME_ID), LAMBDA p :
    IF ~p.some THEN "false"
    ELSE IF ~validate_standard_commitment(p.val.commitment) THEN "false"
    ELSE B2S(bp_verify_threshold(
                 reconstruct_bulletproofs_proof(p.val.proof, p.val.commitment), threshold)))

\* consistency_proof::prove_consistency
prove_consistency(data, blindings) ==
    With(bp_prove_consistency(data, blindings), LAMBDA backend_proof :
        IF ~backend_proof.ok THEN PErr("PyValueError")
        ELSE FrameBulletproofs(CONSISTENCY_SCHEME_ID, backend_proof.bytes))

\* consistency_proof::verify_consistency
verify_consistency(proof) ==
    With(parse_and_validate_proof(proof, CONSISTENCY_SCHEME_ID), LAMBDA p :
    IF ~p.some THEN "false"
    ELSE B2S(bp_verify_consistency(
                 reconstruct_bulletproofs_proof(p.val.proof, p.val.commitment))))

\* set_membership::prove_membership
prove_membership(value, set, cell, gen) ==
    IF set = <<>> THEN Out(PErr("PyValueError"), cell)
    ELSE With(commit_value(value), LAMBDA commitment :
         With(prove_membership_zk(value, set, commitment, cell, gen), LAMBDA snark_proof :
         With(Cat(ToLE(Len(set), 4), Cat(SetBytes(set), snark_proof.res)), LAMBDA payload :
             IF snark_proof.res = <<>> THEN Out(PErr("PyRuntimeError"), snark_proof.cell)
             ELSE Out(POk(to_bytes(ProofNew(MEMBERSHIP_SCHEME_ID, payload, commitment))),
                      snark_proof.cell))))

\* set_membership::verify_membership
verify_membership(proof, set, cell, gen) ==
    With(parse_and_validate_proof(proof, MEMBERSHIP_SCHEME_ID), LAMBDA p :
    IF ~p.some THEN Out("false", cell)
    ELSE IF ~validate_standard_commitment(p.val.commitment) THEN Out("false", cell)
    ELSE IF BLen(p.val.proof) < 4 THEN Out("false", cell)
    ELSE With(FromLE(Slice(p.val.proof, 0, 4)), LAMBDA set_size :
         With(SatAdd(SatMul(set_size, 8), 4), LAMBDA needed :
    IF BLen(p.val.proof) <= needed THEN Out("false", cell)
    ELSE With(ReadU64s(Drop(p.val.proof, 4), set_size), LAMBDA embedded_set :
         With(Drop(p.val.proof, needed), LAMBDA snark_bytes :
    IF Len(set) # Len(embedded_set) THEN Out("false", cell)
    ELSE IF SortUnstable(set) # SortUnstable(embedded_set) THEN Out("false", cell)
    ELSE verify_membership_zk(snark_bytes, embedded_set, p.val.commitment, cell, gen))))))

\* improvement_proof::prove_improvement
prove_improvement(old, new) ==
    IF ~validate_improvement_params(old, new) THEN PErr("InvalidInput")
    ELSE With(stark_prove(Cat(ToLE(old, 8), ToLE(new, 8))), LAMBDA stark_proof :
             IF stark_proof = <<>> THEN PErr("PyRuntimeError")
             ELSE POk(to_bytes(ProofNew(IMPROVEMENT_SCHEME_ID, stark_proof,
                                        commit_improvement(old, new)))))

\* improvement_proof::verify_improvement
verify_improvement(proof, old) ==
    With(parse_and_validate_proof(proof, IMPROVEMENT_SCHEME_ID), LAMBDA p :
    IF ~p.some THEN "false"
    ELSE With(validate_improvement_commitment(p.val.commitment, old), LAMBDA new :
    IF ~new.some THEN "false"
    ELSE B2S(stark_verify(p.val.proof, Cat(ToLE(old, 8), ToLE(new.val, 8))))))

-----------------------------------------------------------------------------
(* Parallel verification: src/utils/performance.rs                         *)

\* the payload is read without the length checks that precede the slices
verify_single_proof_unguarded(proof_data, proof_type, cell, gen) ==
    With(from_bytes(proof_data), LAMBDA p :
    IF ~p.some THEN Out("false", cell)
    ELSE IF p.val.version # PROOF_VERSION THEN Out("false", cell)
    ELSE With(p.val.proof, LAMBDA proof :
         With(p.val.commitment, LAMBDA commitment :
    IF proof_type = "range" THEN
        IF p.val.scheme # 1 THEN Out("false", cell)
        ELSE IF ~InBounds(proof, 0, 8) \/ ~InBounds(proof, 8, 16) THEN Out("panic", cell)
        ELSE With(FromLE(Slice(proof, 0, 8)), LAMBDA min :
             With(FromLE(Slice(proof, 8, 16)), LAMBDA max :
        IF min > max THEN Out("false", cell)
        ELSE IF BLen(commitment) # 32 THEN Out("false", cell)
        ELSE Out(B2S(verify_range_with_bounds(
                         reconstruct_bulletproofs_proof(proof, commitment), min, max)), cell)))
    ELSE IF proof_type = "equality" THEN
        IF p.val.scheme # 2 THEN Out("false", cell)
        ELSE IF BLen(commitment) # 32 THEN Out("false", cell)
        ELSE verify_equality_zk(proof, commitment, cell, gen)
    ELSE IF proof_type = "threshold" THEN
        IF p.val.scheme # 3 THEN Out("false", cell)
        ELSE IF ~InBounds(proof, 0, 8) THEN Out("panic", cell)
        ELSE With(FromLE(Slice(proof, 0, 8)), LAMBDA threshold :
        IF BLen(commitment) # 32 THEN Out("false", cell)
        ELSE Out(B2S(bp_verify_threshold(
                         reconstruct_bulletproofs_proof(proof, commitment), threshold)), cell))
    ELSE IF proof_type = "membership" THEN
        IF p.val.scheme # 4 THEN Out("false", cell)
        ELSE IF ~InBounds(proof, 0, 4) THEN Out("panic", cell)
        ELSE With(FromLE(Slice(proof, 0, 4)), LAMBDA set_size :
             With(SatAdd(4, SatMul(set_size, 8)), LAMBDA needed :
        IF set_size > 0 /\ ~InBounds(proof, 4, needed) THEN Out("panic", cell)
        ELSE With(ReadU64s(Drop(proof, 4), set_size), LAMBDA set :
        IF BLen(commitment) # 32 THEN Out("false", cell)
        ELSE Out(B2S(bp_verify_set_membership(
                         reconstruct_bulletproofs_proof(proof, commitment), set)), cell))))
    ELSE IF proof_type = "improvement" THEN
        IF p.val.scheme # 5 THEN Out("false", cell)
        ELSE IF ~InBounds(commitment, 0, 8) \/ ~InBounds(commitment, 8, 16) THEN Out("panic", cell)
        ELSE With(FromLE(Slice(commitment, 0, 8)), LAMBDA diff :
             With(FromLE(Slice(commitment, 8, 16)), LAMBDA new :
        IF diff = 0 THEN Out("false", cell)
        ELSE IF new < diff THEN Out("false", cell)
        ELSE Out(B2S(stark_verify(proof, Cat(ToLE(new - diff, 8), ToLE(new, 8)))), cell)))
    ELSE IF proof_type = "consistency" THEN
        IF p.val.scheme # 6 THEN Out("false", cell)
        ELSE Out(B2S(bp_verify_consistency(
                         reconstruct_bulletproofs_proof(proof, commitment))), cell)
    ELSE Out("false", cell))))

\* parallel::verify_single_proof.  A slice whose range lies outside the
\* buffer panics: each slice of the code is preceded here by that check (the
\* reads of the loop over the set lie in 4 .. 4 + 8 * set_size).
verify_single_proof(proof_data, proof_type, cell, gen) ==
    With(from_bytes(proof_data), LAMBDA p :
    IF ~p.some THEN Out("false", cell)
    ELSE IF p.val.version # PROOF_VERSION THEN Out("false", cell)
    ELSE With(p.val.proof, LAMBDA proof :
         With(p.val.commitment, LAMBDA commitment :
    IF proof_type = "range" THEN
        IF p.val.scheme # 1 THEN Out("false", cell)
        ELSE IF BLen(proof) < 16 THEN Out("false", cell)
        ELSE IF ~InBounds(proof, 0, 8) \/ ~InBounds(proof, 8, 16) THEN Out("panic", cell)
        ELSE With(FromLE(Slice(proof, 0, 8)), LAMBDA min :
             With(FromLE(Slice(proof, 8, 16)), LAMBDA max :
        IF min > max THEN Out("false", cell)
        ELSE IF BLen(commitment) # 32 THEN Out("false", cell)
        ELSE Out(B2S(verify_range_with_bounds(
                         reconstruct_bulletproofs_proof(proof, commitment), min, max)), cell)))
    ELSE IF proof_type = "equality" THEN
        IF p.val.scheme # 2 THEN Out("false", cell)
        ELSE IF BLen(commitment) # 32 THEN Out("false", cell)
        ELSE verify_equality_zk(proof, commitment, cell, gen)
    ELSE IF proof_type = "threshold" THEN
        IF p.val.scheme # 3 THEN Out("false", cell)
        ELSE IF BLen(proof) < 8 THEN Out("false", cell)
        ELSE IF ~InBounds(proof, 0, 8) THEN Out("panic", cell)
        ELSE With(FromLE(Slice(proof, 0, 8)), LAMBDA threshold :
        IF BLen(commitment) # 32 THEN Out("false", cell)
        ELSE Out(B2S(bp_verify_threshold(
                         reconstruct_bulletproofs_proof(proof, commitment), threshold)), cell))
    ELSE IF proof_type = "membership" THEN
        IF p.val.scheme # 4 THEN Out("false", cell)
        ELSE IF BLen(proof) < 4 THEN Out("false", cell)
        ELSE IF ~InBounds(proof, 0, 4) THEN Out("panic", cell)
        ELSE With(FromLE(Slice(proof, 0, 4)), LAMBDA set_size :
             With(SatAdd(4, SatMul(set_size, 8)), LAMBDA needed :
        IF BLen(proof) < needed THEN Out("false", cell)
        ELSE IF set_size > 0 /\ ~InBounds(proof, 4, needed) THEN Out("panic", cell)
        ELSE With(ReadU64s(Drop(proof, 4), set_size), LAMBDA set :
        IF BLen(commitment) # 32 THEN Out("false", cell)
        ELSE Out(B2S(bp_verify_set_membership(
                         reconstruct_bulletproofs_proof(proof, commitment), set)), cell))))
    ELSE IF proof_type = "improvement" THEN
        IF p.val.scheme # 5 THEN Out("false", cell)
        ELSE IF BLen(commitment) # 16 THEN Out("false", cell)
        ELSE IF ~InBounds(commitment, 0, 8) \/ ~InBounds(commitment, 8, 16) THEN Out("panic", cell)
        ELSE With(FromLE(Slice(commitment, 0, 8)), LAMBDA diff :
             With(FromLE(Slice(commitment, 8, 16)), LAMBDA new :
        IF diff = 0 THEN Out("false", cell)
        ELSE IF new < diff THEN Out("false", cell)
        ELSE Out(B2S(stark_verify(proof, Cat(ToLE(new - diff, 8), ToLE(new, 8)))), cell)))
    ELSE IF proof_type = "consistency" THEN
        IF p.val.scheme # 6 THEN Out("false", cell)
        ELSE Out(B2S(bp_verify_consistency(
                         reconstruct_bulletproofs_proof(proof, commitment))), cell)
    ELSE Out("false", cell))))

\* parallel::verify_proofs_parallel: the results in input order; the closures
\* share the setup cell, which the first of them to need it initialises
RECURSIVE verify_proofs_parallel(_, _, _)
verify_proofs_parallel(proofs, cell, gen) ==
    IF proofs = <<>> THEN Out(<<>>, cell)
    ELSE With(verify_single_proof(Head(proofs)[1], Head(proofs)[2], cell, gen), LAMBDA head :
         With(verify_proofs_parallel(Tail(proofs), head.cell, gen), LAMBDA tail :
             Out(<<head.res>> \o tail.res, tail.cell)))

-----------------------------------------------------------------------------
(* Compositor: src/utils/composition.rs, src/advanced/composite.rs         *)

MAX_COMPOSITE_ITEMS == 1000
MAX_METADATA_KEY_LEN == 1024
MAX_METADATA_VALUE_LEN == 65536
COMPOSITE_HEADER_LEN == 12

\* a byte-string literal such as b"COMP", from its byte values
RECURSIVE Str(_)
Str(s) == IF s = <<>> THEN <<>> ELSE Cat(Byte(Head(s)), Str(Tail(s)))

\* b"COMP" and b"COMPOSITE_PROOF:"
COMP_MAGIC == Str(<<67, 79, 77, 80>>)
COMPOSITE_DOMAIN == Str(<<67, 79, 77, 80, 79, 83, 73, 84, 69, 95, 80, 82, 79, 79, 70, 58>>)

\* struct CompositeProof; the HashMap is a sequence of entries with distinct
\* keys, compared as a map by MapEq
CompositeProof(proofs, metadata, composition_hash) ==
    [proofs |-> proofs, metadata |-> metadata, composition_hash |-> composition_hash]

NoComposite == CompositeProof(<<>>, <<>>, <<>>)
COk(c) == [ok |-> TRUE, val |-> c]
CErr == [ok |-> FALSE, val |-> NoComposite]

Entry(key, value) == [key |-> key, value |-> value]

\* HashMap::insert
MapInsert(m, key, value) ==
    IF \E i \in 1..Len(m) : m[i].key = key
    THEN [i \in 1..Len(m) |-> IF m[i].key = key THEN Entry(key, value) ELSE m[i]]
    ELSE Append(m, Entry(key, value))

\* equality of two HashMaps
MapEq(m, n) ==
    /\ Len(m) = Len(n)
    /\ \A i \in 1..Len(m) : \E j \in 1..Len(n) : m[i] = n[j]

\* the bytes hashed for the proofs: each proof.to_bytes() in order
RECURSIVE HashedProofs(_)
HashedProofs(proofs) ==
    IF proofs = <<>> THEN <<>> ELSE Cat(to_bytes(Head(proofs)), HashedProofs(Tail(proofs)))

\* CompositeProof::compute_composition_hash
compute_composition_hash(proofs) ==
    Sha256(Cat(COMPOSITE_DOMAIN, Cat(ToLE(Len(proofs), 4), HashedProofs(proofs))))

\* CompositeProof::new
composite_new(proofs) ==
    IF proofs = <<>> THEN CErr
    ELSE COk(CompositeProof(proofs, <<>>, compute_composition_hash(proofs)))

\* the digest is made to cover the inserted key
add_metadata_hashed(c, key, value) ==
    CompositeProof(c.proofs, MapInsert(c.metadata, key, value),
                   Sha256(Cat(compute_composition_hash(c.proofs), key)))

\* CompositeProof::add_metadata
add_metadata(c, key, value) ==
    CompositeProof(c.proofs, MapInsert(c.metadata, key, value),
                   compute_composition_hash(c.proofs))

\* the proofs section of to_bytes: len(u32) || envelope, for each proof
RECURSIVE WriteProofs(_)
WriteProofs(proofs) ==
    IF proofs = <<>> THEN <<>>
    ELSE LET proof_bytes == to_bytes(Head(proofs))
         IN  Cat(ToLE(BLen(proof_bytes), 4), Cat(proof_bytes, WriteProofs(Tail(proofs))))

\* the metadata section of to_bytes: key_len || key || value_len || value for
\* each entry, in the order the HashMap iterates (order lists the entries)
RECURSIVE WriteMetadata(_, _)
WriteMetadata(metadata, order) ==
    IF order = <<>> THEN <<>>
    ELSE LET e == metadata[Head(order)]
         IN  Cat(ToLE(BLen(e.key), 4),
             Cat(e.key,
             Cat(ToLE(BLen(e.value), 4),
             Cat(e.value, WriteMetadata(metadata, Tail(order))))))

\* CompositeProof::to_bytes
composite_to_bytes(c, order) ==
    Cat(COMP_MAGIC,
    Cat(ToLE(Len(c.proofs), 4),
    Cat(ToLE(Len(c.metadata), 4),
    Cat(WriteProofs(c.proofs),
    Cat(WriteMetadata(c.metadata, order), c.composition_hash)))))

\* String::from_utf8 on the bytes of a key.  ASCII bytes are UTF-8; the keys
\* of the model are ASCII and a slice holding any other byte is refused
Utf8(bs) == \A i \in 1..Len(bs) : IsRaw(bs[i]) /\ bs[i].x[2] < 128

ReadOk(items, offset) == [ok |-> TRUE, items |-> items, offset |-> offset]
ReadErr == [ok |-> FALSE, items |-> <<>>, offset |-> 0]

\* the "Read proofs" loop of from_bytes, with count iterations to go
RECURSIVE ReadProofs(_, _, _, _)
ReadProofs(data, offset, count, proofs) ==
    IF count = 0 THEN ReadOk(proofs, offset)
    ELSE IF offset + 4 > BLen(data) THEN ReadErr
    ELSE With(FromLE(Slice(data, offset, offset + 4)), LAMBDA proof_len :
         With(offset + 4, LAMBDA start :
             IF SatAdd(start, proof_len) > BLen(data) THEN ReadErr
             ELSE With(from_bytes(Slice(data, start, start + proof_len)), LAMBDA proof :
                      IF ~proof.some THEN ReadErr
                      ELSE ReadProofs(data, start + proof_len, count - 1,
                                      Append(proofs, proof.val)))))

\* the "Read metadata" loop of from_bytes, with count iterations to go
RECURSIVE ReadMetadata(_, _, _, _)
ReadMetadata(data, offset, count, metadata) ==
    IF count = 0 THEN ReadOk(metadata, offset)
    ELSE IF offset + 8 > BLen(data) THEN ReadErr
    ELSE With(FromLE(Slice(data, offset, offset + 4)), LAMBDA key_len :
         With(FromLE(Slice(data, offset + 4, offset + 8)), LAMBDA value_len :
         With(offset + 8, LAMBDA start :
             IF key_len > MAX_METADATA_KEY_LEN \/ value_len > MAX_METADATA_VALUE_LEN
             THEN ReadErr
             ELSE IF start + key_len + value_len > BLen(data) THEN ReadErr
             ELSE With(Slice(data, start, start + key_len), LAMBDA key :
                  With(Slice(data, start + key_len, start + key_len + value_len), LAMBDA value :
                      IF ~Utf8(key) THEN ReadErr
                      ELSE ReadMetadata(data, start + key_len + value_len, count - 1,
                                        MapInsert(metadata, key, value)))))))

\* CompositeProof::from_bytes
composite_from_bytes(data) ==
    IF BLen(data) < COMPOSITE_HEADER_LEN THEN CErr
    ELSE IF Slice(data, 0, 4) # COMP_MAGIC THEN CErr
    ELSE With(FromLE(Slice(data, 4, 8)), LAMBDA num_proofs :
         With(FromLE(Slice(data, 8, 12)), LAMBDA num_metadata :
    IF num_proofs > MAX_COMPOSITE_ITEMS \/ num_metadata > MAX_COMPOSITE_ITEMS THEN CErr
    ELSE With(ReadProofs(data, COMPOSITE_HEADER_LEN, num_proofs, <<>>), LAMBDA proofs :
    IF ~proofs.ok THEN CErr
    ELSE With(ReadMetadata(data, proofs.offset, num_metadata, <<>>), LAMBDA metadata :
    IF ~metadata.ok THEN CErr
    ELSE IF metadata.offset + 32 > BLen(data) THEN CErr
    ELSE With(Slice(data, metadata.offset, metadata.offset + 32), LAMBDA composition_hash :
         With(compute_composition_hash(proofs.items), LAMBDA expected_hash :
    IF composition_hash # expected_hash THEN CErr
    ELSE COk(CompositeProof(proofs.items, metadata.items, composition_hash))))))))

\* CompositeProof::verify_integrity
verify_integrity(c) == c.composition_hash = compute_composition_hash(c.proofs)

\* the loop of create_composite_proof: Proof::from_bytes on each element
RECURSIVE DecodeAll(_)
DecodeAll(proof_list) ==
    IF proof_list = <<>> THEN ReadOk(<<>>, 0)
    ELSE With(from_bytes(Head(proof_list)), LAMBDA proof :
         With(DecodeAll(Tail(proof_list)), LAMBDA rest :
             IF ~proof.some \/ ~rest.ok THEN ReadErr
             ELSE ReadOk(<<proof.val>> \o rest.items, 0)))

\* what a composite pyfunction gives back: the composite it built or decoded
\* and the bytes it returns, or the error it raises
KOk(c, bytes) == [ok |-> TRUE, err |-> "none", val |-> c, bytes |-> bytes]
KErr(kind) == [ok |-> FALSE, err |-> kind, val |-> NoComposite, bytes |-> <<>>]

\* composite::create_composite_proof
create_composite_proof(proof_list) ==
    IF proof_list = <<>> THEN KErr("InvalidInput")
    ELSE With(DecodeAll(proof_list), LAMBDA proofs :
    IF ~proofs.ok THEN KErr("InvalidProofFormat")
    ELSE With(composite_new(proofs.items), LAMBDA composite :
             IF ~composite.ok THEN KErr("InvalidInput")
             ELSE KOk(composite.val, composite_to_bytes(composite.val, <<>>))))

\* composite::verify_composite_proof: "true", "false", or "raise" when the
\* error of from_bytes is propagated to the caller
verify_composite_proof(composite_bytes) ==
    With(composite_from_bytes(composite_bytes), LAMBDA composite :
        IF ~composite.ok THEN "raise" ELSE B2S(verify_integrity(composite.val)))

\* the loop of create_proof_with_metadata: add_metadata for each entry
RECURSIVE AddAll(_, _)
AddAll(c, metadata) ==
    IF metadata = <<>> THEN c
    ELSE AddAll(add_metadata(c, Head(metadata).key, Head(metadata).value), Tail(metadata))

\* composite::create_proof_with_metadata; order is the order in which the
\* HashMap of the composite iterates
create_proof_with_metadata(proof_data, metadata, order) ==
    With(from_bytes(proof_data), LAMBDA proof :
    IF ~proof.some THEN KErr("InvalidProofFormat")
    ELSE With(AddAll(composite_new(<<proof.val>>).val, metadata), LAMBDA composite :
             KOk(composite, composite_to_bytes(composite, order))))

\* composite::extract_proof_metadata
extract_proof_metadata(composite_bytes) ==
    With(composite_from_bytes(composite_bytes), LAMBDA composite :
        IF ~composite.ok THEN KErr("InvalidProofFormat")
        ELSE KOk(composite.val, <<>>))

-----------------------------------------------------------------------------
(* Batch registry and dispatcher: src/advanced/batch.rs                    *)

\* enum BatchOperation: RangeProof {value, min, max} keeps value in vals and
\* min, max in x, y; EqualityProof {val1, val2} and ImprovementProof {old, new}
\* are x, y; ThresholdProof {values, threshold} is vals, x; MembershipProof
\* {value, set} is x, vals; ConsistencyProof {data} is vals
BatchOperation(kind, vals, x, y) == [kind |-> kind, vals |-> vals, x |-> x, y |-> y]

\* the messages of the errors the batch functions return
INVALID_BATCH_ID == "Invalid batch ID"
PROOF_GENERATION_FAILED == "ProofGenerationFailed"

\* HashMap::insert, HashMap::remove and HashMap::contains_key on the registry
registry_insert(reg, batch_id, batch) ==
    [i \in DOMAIN reg \cup {batch_id} |-> IF i = batch_id THEN batch ELSE reg[i]]
registry_keep(reg, batch_id) == reg
registry_remove(reg, batch_id) == [i \in DOMAIN reg \ {batch_id} |-> reg[i]]
registry_contains(reg, batch_id) == batch_id \in DOMAIN reg

BOk(reg) == [err |-> "none", registry |-> reg]
BErr(msg, reg) == [err |-> msg, registry |-> reg]

\* create_proof_batch; ProofBatch::new() is the empty list of operations
create_proof_batch(reg, ctr) ==
    [batch_id |-> ctr, counter |-> ctr + 1, registry |-> registry_insert(reg, ctr, <<>>)]

\* with_batch_mut with f = |batch| batch.add_*(..): push op on the batch
with_batch_mut_front(reg, batch_id, op) ==
    IF ~registry_contains(reg, batch_id) THEN BErr(INVALID_BATCH_ID, reg)
    ELSE BOk(registry_insert(reg, batch_id, <<op>> \o reg[batch_id]))
with_batch_mut(reg, batch_id, op) ==
    IF ~registry_contains(reg, batch_id) THEN BErr(INVALID_BATCH_ID, reg)
    ELSE BOk(registry_insert(reg, batch_id, Append(reg[batch_id], op)))

\* validation::validate_threshold_params: "ok" or the message of its error
validate_threshold_params(values, threshold) ==
    IF values = <<>> THEN "values cannot be empty"
    ELSE With(CheckedSum(values), LAMBDA sum :
             IF ~sum.some THEN "integer overflow in sum calculation"
             ELSE IF sum.val < threshold THEN "sum is less than threshold"
             ELSE "ok")

batch_add_range_proof(reg, batch_id, value, min, max) ==
    IF min > max THEN BErr("min cannot be greater than max", reg)
    ELSE IF ~validate_range_params(value, min, max) THEN BErr("value is not in range", reg)
    ELSE with_batch_mut(reg, batch_id, BatchOperation("range", <<value>>, min, max))

batch_add_equality_proof(reg, batch_id, val1, val2) ==
    IF val1 # val2 THEN BErr("values must be equal", reg)
    ELSE with_batch_mut(reg, batch_id, BatchOperation("equality", <<>>, val1, val2))

batch_add_threshold_proof(reg, batch_id, values, threshold) ==
    With(validate_threshold_params(values, threshold), LAMBDA checked :
        IF checked # "ok" THEN BErr(checked, reg)
        ELSE with_batch_mut(reg, batch_id, BatchOperation("threshold", values, threshold, 0)))

\* the three add functions that lib.rs registers and the demo calls: each
\* appends its operation to the batch with the given id
batch_add_membership_proof(reg, batch_id, value, set) ==
    with_batch_mut(reg, batch_id, BatchOperation("membership", set, value, 0))

batch_add_improvement_proof(reg, batch_id, old, new) ==
    with_batch_mut(reg, batch_id, BatchOperation("improvement", <<>>, old, new))

batch_add_consistency_proof(reg, batch_id, data) ==
    with_batch_mut(reg, batch_id, BatchOperation("consistency", data, 0, 0))

\* the number of operations of a kind in a batch
RECURSIVE CountKind(_, _)
CountKind(ops, kind) ==
    IF ops = <<>> THEN 0
    ELSE (IF Head(ops).kind = kind THEN 1 ELSE 0) + CountKind(Tail(ops), kind)

NoStatus ==
    [total_operations |-> 0, range_proofs |-> 0, equality_proofs |-> 0, threshold_proofs |-> 0,
     membership_proofs |-> 0, improvement_proofs |-> 0, consistency_proofs |-> 0]

\* get_batch_status
get_batch_status(reg, batch_id) ==
    IF ~registry_contains(reg, batch_id) THEN [err |-> INVALID_BATCH_ID, status |-> NoStatus]
    ELSE With(reg[batch_id], LAMBDA ops :
             [err |-> "none",
              status |-> [total_operations |-> Len(ops),
                          range_proofs |-> CountKind(ops, "range"),
                          equality_proofs |-> CountKind(ops, "equality"),
                          threshold_proofs |-> CountKind(ops, "threshold"),
                          membership_proofs |-> CountKind(ops, "membership"),
                          improvement_proofs |-> CountKind(ops, "improvement"),
                          consistency_proofs |-> CountKind(ops, "consistency")]])

\* the first block of process_batch: the batch is taken out of the registry
\* under the lock
take_batch(reg, batch_id) ==
    IF ~registry_contains(reg, batch_id)
    THEN [err |-> INVALID_BATCH_ID, operations |-> <<>>, registry |-> reg]
    ELSE [err |-> "none", operations |-> reg[batch_id],
          registry |-> registry_remove(reg, batch_id)]

\* clear_batch
clear_batch(reg, batch_id) == BOk(registry_remove(reg, batch_id))

\* any error of a prover becomes ProofGenerationFailed
MapProofErr(r) == IF r.ok THEN r ELSE PErr(PROOF_GENERATION_FAILED)

\* process_batch_operation; blindings are the OsRng draws of the Bulletproofs
\* provers, cells the two setup cells, gen_e and gen_m what the setup
\* generators give if they are run
process_batch_operation(op, blindings, cells, gen_e, gen_m) ==
    IF op.kind = "range"
    THEN Out(MapProofErr(prove_range(op.vals[1], op.x, op.y, blindings[1])), cells)
    ELSE IF op.kind = "equality"
    THEN With(prove_equality(op.x, op.y, cells.equality, gen_e), LAMBDA o :
             Out(MapProofErr(o.res), [cells EXCEPT !.equality = o.cell]))
    ELSE IF op.kind = "threshold"
    THEN Out(MapProofErr(prove_threshold(op.vals, op.x, blindings[2])), cells)
    ELSE IF op.kind = "membership"
    THEN With(prove_membership(op.x, op.vals, cells.membership, gen_m), LAMBDA o :
             Out(MapProofErr(o.res), [cells EXCEPT !.membership = o.cell]))
    ELSE IF op.kind = "improvement"
    THEN Out(MapProofErr(prove_improvement(op.x, op.y)), cells)
    ELSE Out(MapProofErr(prove_consistency(op.vals, SubSeq(blindings, 1, Len(op.vals)))), cells)

\* operations().par_iter().map(process_batch_operation) with every operation
\* run: the results in input order and the setup cells afterwards
RECURSIVE MapOperations(_, _, _, _, _)
MapOperations(ops, blindings, cells, gen_e, gen_m) ==
    IF ops = <<>> THEN Out(<<>>, cells)
    ELSE With(process_batch_operation(Head(ops), blindings, cells, gen_e, gen_m),
              LAMBDA head :
         With(MapOperations(Tail(ops), blindings, head.cell, gen_e, gen_m),
              LAMBDA tail :
             Out(<<head.res>> \o tail.res, tail.cell)))

\* a slot of the output vector of par_iter().map(..).collect() that no worker
\* has written yet
NoResult == [ok |-> FALSE, bytes |-> <<>>, err |-> "pending"]
Pending(r) == r.err = "pending"

\* the collect may finish: every operation has run, or one has failed (the
\* pool then hands out no further operation)
Collectable(results) ==
    \/ \A i \in 1..Len(results) : ~Pending(results[i])
    \/ \E i \in 1..Len(results) : ~Pending(results[i]) /\ ~results[i].ok

\* the envelopes are returned last operation first
CollectResultsReversed(results) ==
    IF \A i \in 1..Len(results) : results[i].ok
    THEN [err |-> "none",
          proofs |-> [i \in 1..Len(results) |-> results[Len(results) + 1 - i].bytes]]
    ELSE [err |-> PROOF_GENERATION_FAILED, proofs |-> <<>>]

\* the envelopes of the operations that succeeded are returned with the error
CollectResultsPartial(results) ==
    IF \A i \in 1..Len(results) : results[i].ok
    THEN [err |-> "none", proofs |-> [i \in 1..Len(results) |-> results[i].bytes]]
    ELSE [err |-> PROOF_GENERATION_FAILED,
          proofs |-> [i \in 1..Len(results) |-> results[i].bytes]]

\* collect::<Result<Vec<_>, _>>() over the indexed iterator: slot i of the
\* vector is the result of operation i; the envelopes if every result is Ok,
\* the error otherwise
CollectResults(results) ==
    IF \A i \in 1..Len(results) : results[i].ok
    THEN [err |-> "none", proofs |-> [i \in 1..Len(results) |-> results[i].bytes]]
    ELSE [err |-> PROOF_GENERATION_FAILED, proofs |-> <<>>]

-----------------------------------------------------------------------------
(* State of the facade before any call                                     *)

NoSrc == [op |-> "none", ok |-> FALSE, err |-> "none", vals |-> <<>>, x |-> 0, y |-> 0,
          tamper |-> "none"]
NoOut == [fn |-> "none", res |-> "none", vals |-> <<>>, x |-> 0, y |-> 0]

\* both setup cells are empty when the library is loaded
SrsInit == [equality |-> "unset", membership |-> "unset"]

ProofIdle ==
    /\ pEnv = <<>>
    /\ pSrc = NoSrc
    /\ pOut = NoOut
    /\ srs = SrsInit

NoKSrc == [op |-> "none", ok |-> FALSE, err |-> "none", meta |-> <<>>, tamper |-> "none"]
NoKOut == [fn |-> "none", res |-> "none", val |-> NoComposite]

CompositeIdle ==
    /\ kSrc = NoKSrc
    /\ kComp = NoComposite
    /\ kBytes = <<>>
    /\ kOut = NoKOut

MaxBatches == 1
\* the ids a caller may name: those create_proof_batch hands out, and one more
BatchIds == 0..MaxBatches
Threads == {"t1", "t2"}

NoOp == BatchOperation("none", <<>>, 0, 0)
\* a caller of process_batch: blindings are the OsRng draws its provers will
\* make, results the slots its workers fill, and reordered records that some
\* operation ran before an earlier one
IdleProc == [pc |-> "idle", id |-> 0, operations |-> <<>>, blindings |-> <<>>,
             results |-> <<>>, reordered |-> FALSE]
NoBOut == [fn |-> "none", id |-> 0, err |-> "none", after |-> FALSE, op |-> NoOp,
           operations |-> <<>>, results |-> <<>>, reordered |-> FALSE,
           proofs |-> <<>>, verdicts |-> <<>>, status |-> NoStatus]

BatchIdle ==
    /\ registry = [i \in {} |-> <<>>]
    /\ counter = 0
    /\ procs = [t \in Threads |-> IdleProc]
    /\ taken = [i \in BatchIds |-> 0]
    /\ bOut = NoBOut

\* the two Groth16 circuits, each with its own setup cell and key file prefix
Circuits == {"equality", "membership"}
\* the directories a caller may name in set_snark_key_dir
Dirs == {"a", "b"}
KeyPair(origin) == [ok |-> TRUE, pair |-> origin, err |-> "none"]
SetupErr(msg) == [ok |-> FALSE, pair |-> "none", err |-> msg]
NoOutcome == [ok |-> FALSE, pair |-> "none", err |-> "unset"]
\* a setup cell nobody has asked for yet: state is unset, running or set; runs
\* counts the load-or-generate routines started for it, found is what that
\* routine met on disk, generated is the pair it drew and persisted how the
\* write of that pair ended, and seen collects the outcomes callers were handed
FreshCell == [state |-> "unset", value |-> NoOutcome, runs |-> 0, found |-> "none",
              generated |-> "none", persisted |-> "none", seen |-> {}]
IdleCaller == [pc |-> "idle", fn |-> "none", circuit |-> "none", path |-> "none",
               dir |-> "none", persist |-> FALSE, outcome |-> NoOutcome,
               before |-> [initialized |-> FALSE, dir |-> "uninit"],
               waited |-> FALSE, wrote |-> FALSE, ret |-> "none"]

SetupIdle ==
    /\ keyDir = "uninit"
    /\ envDir = "none"
    /\ keyFiles = [d \in Dirs |-> [c \in Circuits |-> "absent"]]
    /\ cellRun = [c \in Circuits |-> FreshCell]
    /\ callers = [t \in Threads |-> IdleCaller]

\* the processes that share a key directory, none of them started
Processes == {"p1", "p2"}
NoWriter == [pc |-> "off", run |-> 0, pk |-> "none", vk |-> "none"]

\* no thread holds a mutex or is inside a registry call; nothing was handed out;
\* the shared key directory is empty
IdleCall == [pc |-> "idle", fn |-> "none", op |-> NoOp, batch_id |-> 0,
             err |-> "none", operations |-> <<>>, overlapped |-> FALSE]
LockIdle ==
    /\ locks = [registry |-> "free", counter |-> "free"]
    /\ calls = [t \in Threads |-> IdleCall]
    /\ ledger = [issued |-> <<>>, added |-> [i \in {} |-> <<>>], removed |-> {}]
    /\ disk = [pk |-> "absent", vk |-> "absent"]
    /\ writers = [p \in Processes |-> NoWriter]

CodecIdle ==
    /\ cSrc = "none"
    /\ cProof = ProofNew(0, <<>>, <<>>)
    /\ cBytes = <<>>
    /\ cDec = [called |-> FALSE, res |-> None]

-----------------------------------------------------------------------------
(* Codec specification: encode, tamper, decode                             *)

MaxTamper == 2
SchemeBytes == {1, 255}
FillBytes == {0, 7}
PayloadLens == {0, 1, 5, MAX_PROOF_PAYLOAD_BYTES, MAX_PROOF_PAYLOAD_BYTES + 1}
CommitLens == {0, 1, 32, MAX_COMMITMENT_BYTES, MAX_COMMITMENT_BYTES + 1}
DeclaredProofLens == {0, 5, MAX_PROOF_PAYLOAD_BYTES, MAX_PROOF_PAYLOAD_BYTES + 1}
DeclaredCommitLens == {0, 32, MAX_COMMITMENT_BYTES, MAX_COMMITMENT_BYTES + 1}
OversizeBody == MAX_PROOF_TOTAL_BYTES - HEADER_LEN + 1

NotDecoded == [called |-> FALSE, res |-> None]

CodecInit ==
    /\ cSrc = "none"
    /\ cProof = ProofNew(0, <<>>, <<>>)
    /\ cBytes = <<>>
    /\ cDec = NotDecoded
    /\ ProofIdle
    /\ CompositeIdle
    /\ SetupIdle
    /\ BatchIdle
    /\ LockIdle

\* encode(scheme, proof, commitment)
CodecEncode ==
    \E s \in SchemeBytes, pl \in PayloadLens, cl \in CommitLens, pb \in FillBytes, cb \in FillBytes :
        /\ cProof' = ProofNew(s, Run(pb, pl), Run(cb, cl))
        /\ cBytes' = create_proof(s, Run(pb, pl), Run(cb, cl))
        /\ cSrc' = "encoded"
        /\ cDec' = NotDecoded
        /\ UNCHANGED <<proofVars, compVars, batchVars, setupVars, lockVars, fileVars>>

\* the caller drops the last k bytes of an encoded envelope
CodecTruncate ==
    \E k \in 1..MaxTamper :
        /\ cSrc = "encoded"
        /\ BLen(cBytes) >= k
        /\ cBytes' = Take(cBytes, BLen(cBytes) - k)
        /\ cSrc' = "truncated"
        /\ cDec' = NotDecoded
        /\ UNCHANGED <<proofVars, compVars, batchVars, setupVars, lockVars, fileVars>>
        /\ UNCHANGED cProof

\* the caller appends k bytes to an encoded envelope
CodecExtend ==
    \E k \in 1..MaxTamper, v \in FillBytes :
        /\ cSrc = "encoded"
        /\ cBytes' = Cat(cBytes, Run(v, k))
        /\ cSrc' = "extended"
        /\ cDec' = NotDecoded
        /\ UNCHANGED <<proofVars, compVars, batchVars, setupVars, lockVars, fileVars>>
        /\ UNCHANGED cProof

\* the caller supplies arbitrary bytes: a header with any declared lengths
\* followed by any number of body bytes, or fewer than ten bytes
CodecRaw ==
    \/ \E pl \in DeclaredProofLens, cl \in DeclaredCommitLens :
       \E n \in {pl + cl - 1, pl + cl, pl + cl + 1, OversizeBody} :
        /\ n >= 0
        /\ cBytes' = Cat(Byte(PROOF_VERSION), Cat(Byte(1), Cat(ToLE(pl, 4), Cat(ToLE(cl, 4), Run(0, n)))))
        /\ cSrc' = "raw"
        /\ cProof' = ProofNew(0, <<>>, <<>>)
        /\ cDec' = NotDecoded
        /\ UNCHANGED <<proofVars, compVars, batchVars, setupVars, lockVars, fileVars>>
    \/ \E n \in 0..(HEADER_LEN - 1) :
        /\ cBytes' = Run(1, n)
        /\ cSrc' = "raw"
        /\ cProof' = ProofNew(0, <<>>, <<>>)
        /\ cDec' = NotDecoded
        /\ UNCHANGED <<proofVars, compVars, batchVars, setupVars, lockVars, fileVars>>

\* decode(bytes)
CodecDecode ==
    /\ cSrc # "none"
    /\ cDec' = [called |-> TRUE, res |-> from_bytes(cBytes)]
    /\ UNCHANGED <<cSrc, cProof, cBytes>>
    /\ UNCHANGED <<proofVars, compVars, batchVars, setupVars, lockVars, fileVars>>

CodecNext == CodecEncode \/ CodecTruncate \/ CodecExtend \/ CodecRaw \/ CodecDecode

SpecCodec == CodecInit /\ [][CodecNext]_vars

\* C7: decoding an encoded envelope whose payload is at most 900 KiB and
\* whose commitment is at most 256 bytes succeeds and returns version 1 and
\* the scheme, payload and commitment that were encoded.
C7_EnvelopeRoundTrip ==
    (/\ cSrc = "encoded"
     /\ cDec.called
     /\ BLen(cProof.proof) <= MAX_PROOF_PAYLOAD_BYTES
     /\ BLen(cProof.commitment) <= MAX_COMMITMENT_BYTES)
    => cDec.res = Some(Proof(1, cProof.scheme, cProof.proof, cProof.commitment))

C7_Witness ==
    /\ cSrc = "encoded"
    /\ cDec.called
    /\ cDec.res.some
    /\ BLen(cProof.proof) = MAX_PROOF_PAYLOAD_BYTES
    /\ BLen(cProof.commitment) = MAX_COMMITMENT_BYTES
    /\ cProof.scheme = 255

\* the acceptance condition of the envelope decoder, as the data model states it
DeclaredProofLen(bytes) == FromLE(Slice(bytes, 2, 6))
DeclaredCommitLen(bytes) == FromLE(Slice(bytes, 6, 10))
WellFormedEnvelope(bytes) ==
    /\ BLen(bytes) >= 10
    /\ BLen(bytes) <= 1048576
    /\ DeclaredProofLen(bytes) <= 921600
    /\ DeclaredCommitLen(bytes) <= 256
    /\ BLen(bytes) = 10 + DeclaredProofLen(bytes) + DeclaredCommitLen(bytes)

\* C8: decode succeeds exactly on the inputs of at least 10 and at most
\* 1 MiB bytes whose declared lengths respect the limits and add up to the
\* input length; a truncated or extended envelope is rejected.
C8_DecodeAcceptance ==
    cDec.called =>
        /\ cDec.res.some <=> WellFormedEnvelope(cBytes)
        /\ cSrc \in {"truncated", "extended"} => ~cDec.res.some

C8_Witness ==
    /\ cDec.called
    /\ cSrc = "extended"
    /\ WellFormedEnvelope(Take(cBytes, BLen(cBytes) - 1))
    /\ ~cDec.res.some

-----------------------------------------------------------------------------
(* Facade specification: prove, tamper, verify                             *)

MaxVal == 2
MaxBlinding == 1
MaxCut == 1

Values == 0..MaxVal
Blindings == 1..MaxBlinding
Thresholds == {5, 6, 7}
\* the value pairs of the equality calls: equal at either end of the domain,
\* and unequal
EqualityPairs == {<<0, 0>>, <<MaxVal, MaxVal>>, <<0, MaxVal>>}
\* the [min, max] pairs of the range calls: the whole domain, a proper
\* sub-range, a single point, and an inverted pair
RangeBounds == {<<0, MaxVal>>, <<1, MaxVal>>, <<1, 1>>, <<MaxVal, 0>>}
SchemeTags == 0..7
Kinds == {"range", "equality", "threshold", "membership", "improvement", "consistency"}
ValueLists == {<<>>, <<2>>, <<1, 2>>, <<2, 1>>, <<1, 2, 3>>, <<3, 2, 1>>, <<1, 2, 1>>,
               <<1, 2, 2, 3>>, <<U64_MAX, 1>>}
BlindingLists == {<<1, 1, 1, 1>>} \cup {<<b, b + 1, b, b + 2>> : b \in Blindings}
CutPoints == {3, 7, 15, 27}
VerifierSets == {<<>>, <<1, 2>>, <<1, 2, 3>>, <<3, 2, 1>>, <<1, 2, 2, 3>>}

\* the outcomes load_or_generate_*_setup can have
SetupOutcomes == {"ok", "err"}

Src(op, r, vals, x, y) ==
    [op |-> op, ok |-> r.ok, err |-> r.err, vals |-> vals, x |-> x, y |-> y, tamper |-> "none"]
CallOut(fn, res, vals, x, y) == [fn |-> fn, res |-> res, vals |-> vals, x |-> x, y |-> y]

SpecProofInit == CodecIdle /\ ProofIdle /\ CompositeIdle /\ BatchIdle /\ SetupIdle /\ LockIdle

\* the caller holds no envelope
Fresh == pSrc.op = "none"

ProveRange ==
    \E value \in Values, bounds \in RangeBounds, blinding \in Blindings :
        /\ Fresh
        /\ LET r == prove_range(value, bounds[1], bounds[2], blinding)
           IN  /\ pEnv' = r.bytes
               /\ pSrc' = Src("range", r, <<value>>, bounds[1], bounds[2])
               /\ pOut' = NoOut
               /\ UNCHANGED <<srs, codecVars, compVars, batchVars, setupVars, lockVars, fileVars>>

ProveEquality ==
    \E vals \in EqualityPairs, gen \in SetupOutcomes :
        /\ Fresh
        /\ LET val1 == vals[1]
               val2 == vals[2]
               o == prove_equality(val1, val2, srs.equality, gen)
           IN  /\ pEnv' = o.res.bytes
               /\ pSrc' = Src("equality", o.res, <<>>, val1, val2)
               /\ pOut' = NoOut
               /\ srs' = [srs EXCEPT !.equality = o.cell]
               /\ UNCHANGED <<codecVars, compVars, batchVars, setupVars, lockVars, fileVars>>

ProveThreshold ==
    \E values \in ValueLists, threshold \in Thresholds, blinding \in Blindings :
        /\ Fresh
        /\ LET r == prove_threshold(values, threshold, blinding)
           IN  /\ pEnv' = r.bytes
               /\ pSrc' = Src("threshold", r, values, threshold, 0)
               /\ pOut' = NoOut
               /\ UNCHANGED <<srs, codecVars, compVars, batchVars, setupVars, lockVars, fileVars>>

ProveMembership ==
    \E value \in Values, set \in ValueLists, gen \in SetupOutcomes :
        /\ Fresh
        /\ LET o == prove_membership(value, set, srs.membership, gen)
           IN  /\ pEnv' = o.res.bytes
               /\ pSrc' = Src("membership", o.res, set, value, 0)
               /\ pOut' = NoOut
               /\ srs' = [srs EXCEPT !.membership = o.cell]
               /\ UNCHANGED <<codecVars, compVars, batchVars, setupVars, lockVars, fileVars>>

ProveImprovement ==
    \E old \in Values, new \in Values :
        /\ Fresh
        /\ LET r == prove_improvement(old, new)
           IN  /\ pEnv' = r.bytes
               /\ pSrc' = Src("improvement", r, <<>>, old, new)
               /\ pOut' = NoOut
               /\ UNCHANGED <<srs, codecVars, compVars, batchVars, setupVars, lockVars, fileVars>>

ProveConsistency ==
    \E data \in ValueLists, blindings \in BlindingLists :
        /\ Fresh
        /\ LET r == prove_consistency(data, SubSeq(blindings, 1, Len(data)))
           IN  /\ pEnv' = r.bytes
               /\ pSrc' = Src("consistency", r, data, 0, 0)
               /\ pOut' = NoOut
               /\ UNCHANGED <<srs, codecVars, compVars, batchVars, setupVars, lockVars, fileVars>>

\* the envelopes an adversary derives from an honest one -------------------

Tampered(how) == [pSrc EXCEPT !.tamper = how]
Honest == pSrc.ok /\ pSrc.tamper = "none" /\ pSrc.op \in Kinds

\* the scheme byte is rewritten
TamperScheme ==
    \E s \in SchemeTags :
        /\ Honest
        /\ s # FromLE(Slice(pEnv, 1, 2))
        /\ pEnv' = Cat(Take(pEnv, 1), Cat(Byte(s), Drop(pEnv, 2)))
        /\ pSrc' = Tampered("scheme")
        /\ pOut' = NoOut
        /\ UNCHANGED <<srs, codecVars, compVars, batchVars, setupVars, lockVars, fileVars>>

\* the version byte is rewritten
TamperVersion ==
    \E v \in {0, 2} :
        /\ Honest
        /\ pEnv' = Cat(Byte(v), Drop(pEnv, 1))
        /\ pSrc' = Tampered("version")
        /\ pOut' = NoOut
        /\ UNCHANGED <<srs, codecVars, compVars, batchVars, setupVars, lockVars, fileVars>>

\* bytes are cut from, or appended to, the end
TamperLength ==
    \E k \in 1..MaxCut :
        /\ Honest
        /\ \/ pEnv' = Take(pEnv, BLen(pEnv) - k) /\ pSrc' = Tampered("truncated")
           \/ pEnv' = Cat(pEnv, Run(0, k)) /\ pSrc' = Tampered("extended")
        /\ pOut' = NoOut
        /\ UNCHANGED <<srs, codecVars, compVars, batchVars, setupVars, lockVars, fileVars>>

ForgedCommitments ==
    <<  <<>>, Run(0, 16), Run(0, 32), Cat(ToLE(1, 8), ToLE(2, 8)), Cat(ToLE(3, 8), ToLE(2, 8))  >>

\* a well-formed envelope around a prefix of the payload
TamperPayload ==
    \E n \in CutPoints :
        /\ Honest
        /\ LET p == from_bytes(pEnv).val
           IN  /\ n < BLen(p.proof)
               /\ pEnv' = to_bytes(Proof(p.version, p.scheme, Take(p.proof, n), p.commitment))
        /\ pSrc' = Tampered("payload")
        /\ pOut' = NoOut
        /\ UNCHANGED <<srs, codecVars, compVars, batchVars, setupVars, lockVars, fileVars>>

\* a well-formed envelope around the payload and a forged commitment
TamperCommitment ==
    \E c \in 1..Len(ForgedCommitments) :
        /\ Honest
        /\ LET p == from_bytes(pEnv).val
           IN  pEnv' = to_bytes(Proof(p.version, p.scheme, p.proof, ForgedCommitments[c]))
        /\ pSrc' = Tampered("commitment")
        /\ pOut' = NoOut
        /\ UNCHANGED <<srs, codecVars, compVars, batchVars, setupVars, lockVars, fileVars>>

ForgedPayloads ==
    <<  <<>>,
        Run(0, 3),
        Run(0, 4),
        Run(0, 16),
        Cat(ToLE(1, 4), Run(0, 7)),
        Cat(ToLE(2, 4), Run(0, 16)),
        Cat(Run(255, 4), Run(0, 8)),
        Cat(ToLE(1, 4), Run(0, 32)),
        Cat(ToLE(1, 8), Cat(Run(255, 4), Run(0, 8))),
        Cat(ToLE(1, 4), Cat(ToLE(1, 8), MARKER))  >>

\* bytes that no prover produced: a forged envelope, or not an envelope
Forge ==
    \/ \E s \in 1..6, k \in 1..Len(ForgedPayloads), c \in 1..Len(ForgedCommitments) :
        /\ Fresh
        /\ pEnv' = to_bytes(ProofNew(s, ForgedPayloads[k], ForgedCommitments[c]))
        /\ pSrc' = [NoSrc EXCEPT !.op = "forged", !.x = s, !.y = k]
        /\ pOut' = NoOut
        /\ UNCHANGED <<srs, codecVars, compVars, batchVars, setupVars, lockVars, fileVars>>
    \/ \E n \in {0, HEADER_LEN - 1, MAX_PROOF_TOTAL_BYTES + 1} :
        /\ Fresh
        /\ pEnv' = Run(1, n)
        /\ pSrc' = [NoSrc EXCEPT !.op = "garbage", !.x = n]
        /\ pOut' = NoOut
        /\ UNCHANGED <<srs, codecVars, compVars, batchVars, setupVars, lockVars, fileVars>>

\* the verifiers -----------------------------------------------------------

\* the caller holds an envelope and is not inside a call
Held == pSrc.op # "none" /\ pOut = NoOut

VerifyRange ==
    \E bounds \in RangeBounds :
        /\ Held
        /\ pOut' = CallOut("verify_range", verify_range(pEnv, bounds[1], bounds[2]),
                           <<>>, bounds[1], bounds[2])
        /\ UNCHANGED <<pEnv, pSrc, srs, codecVars, compVars, batchVars, setupVars, lockVars, fileVars>>

VerifyEquality ==
    \E vals \in EqualityPairs, gen \in SetupOutcomes :
        /\ Held
        /\ LET val1 == vals[1]
               val2 == vals[2]
               o == verify_equality(pEnv, val1, val2, srs.equality, gen)
           IN  /\ pOut' = CallOut("verify_equality", o.res, <<>>, val1, val2)
               /\ srs' = [srs EXCEPT !.equality = o.cell]
        /\ UNCHANGED <<pEnv, pSrc, codecVars, compVars, batchVars, setupVars, lockVars, fileVars>>

\* the expected commitment is that of a value, or 32 or 16 zero bytes
VerifyEqualityWithCommitment ==
    \E v \in Values, form \in 0..2, gen \in SetupOutcomes :
        /\ Held
        /\ form # 0 => v = 0
        /\ LET expected == IF form = 0 THEN commit_value(v) ELSE Run(0, 16 * form)
               o == verify_equality_with_commitment(pEnv, expected, srs.equality, gen)
           IN  /\ pOut' = CallOut("verify_equality_with_commitment", o.res, <<>>, v, form)
               /\ srs' = [srs EXCEPT !.equality = o.cell]
        /\ UNCHANGED <<pEnv, pSrc, codecVars, compVars, batchVars, setupVars, lockVars, fileVars>>

VerifyThreshold ==
    \E threshold \in Thresholds :
        /\ Held
        /\ pOut' = CallOut("verify_threshold", verify_threshold(pEnv, threshold),
                           <<>>, threshold, 0)
        /\ UNCHANGED <<pEnv, pSrc, srs, codecVars, compVars, batchVars, setupVars, lockVars, fileVars>>

VerifyMembership ==
    \E set \in VerifierSets, gen \in SetupOutcomes :
        /\ Held
        /\ LET o == verify_membership(pEnv, set, srs.membership, gen)
           IN  /\ pOut' = CallOut("verify_membership", o.res, set, 0, 0)
               /\ srs' = [srs EXCEPT !.membership = o.cell]
        /\ UNCHANGED <<pEnv, pSrc, codecVars, compVars, batchVars, setupVars, lockVars, fileVars>>

VerifyImprovement ==
    \E old \in Values :
        /\ Held
        /\ pOut' = CallOut("verify_improvement", verify_improvement(pEnv, old), <<>>, old, 0)
        /\ UNCHANGED <<pEnv, pSrc, srs, codecVars, compVars, batchVars, setupVars, lockVars, fileVars>>

VerifyConsistency ==
    /\ Held
    /\ pOut' = CallOut("verify_consistency", verify_consistency(pEnv), <<>>, 0, 0)
    /\ UNCHANGED <<pEnv, pSrc, srs, codecVars, compVars, batchVars, setupVars, lockVars, fileVars>>

\* verify_proofs_parallel on the one envelope with a kind tag
VerifyParallel ==
    \E kind \in Kinds \cup {"other"}, gen \in SetupOutcomes :
        /\ Held
        /\ LET o == verify_proofs_parallel(<< <<pEnv, kind>> >>, srs.equality, gen)
           IN  /\ pOut' = CallOut(kind, o.res[1], <<>>, 0, 0)
               /\ srs' = [srs EXCEPT !.equality = o.cell]
        /\ UNCHANGED <<pEnv, pSrc, codecVars, compVars, batchVars, setupVars, lockVars, fileVars>>

\* the caller has taken the verdict
Return ==
    /\ pOut # NoOut
    /\ pOut' = NoOut
    /\ UNCHANGED <<pEnv, pSrc, srs, codecVars, compVars, batchVars, setupVars, lockVars, fileVars>>

SpecProofNext ==
    \/ ProveRange \/ ProveEquality \/ ProveThreshold
    \/ ProveMembership \/ ProveImprovement \/ ProveConsistency
    \/ TamperScheme \/ TamperVersion \/ TamperLength \/ TamperPayload \/ TamperCommitment
    \/ Forge
    \/ VerifyRange \/ VerifyEquality \/ VerifyEqualityWithCommitment \/ VerifyThreshold
    \/ VerifyMembership \/ VerifyImprovement \/ VerifyConsistency \/ VerifyParallel
    \/ Return

SpecProof == SpecProofInit /\ [][SpecProofNext]_vars

\* an envelope as its prover returned it, checked by the verifier fn
HonestCall(op, fn) ==
    /\ pSrc.op = op
    /\ pSrc.ok
    /\ pSrc.tamper = "none"
    /\ pOut.fn = fn

\* C1: verify_consistency accepts the envelope prove_consistency returns for
\* every non-empty monotone non-decreasing sequence, sequences of two or
\* more values such as [1,2,2,3] included.
C1_ConsistencyCompleteness ==
    HonestCall("consistency", "verify_consistency") => pOut.res = "true"

C6_VerifiersNeverRaise ==
    pOut.fn # "none" => pOut.res \in {"true", "false"}

\* a well-formed membership envelope whose payload is too short for the set
\* it declares, given to the parallel verifier as a membership proof
C6_Witness ==
    /\ pSrc.op = "membership"
    /\ pSrc.tamper = "payload"
    /\ pOut.fn = "membership"
    /\ pOut.res = "false"
    /\ LET proof == from_bytes(pEnv).val.proof
       IN  BLen(proof) >= 4 /\ BLen(proof) < 4 + 8 * FromLE(Take(proof, 4))

SchemeOf(fn) ==
    CASE fn = "verify_range" -> RANGE_SCHEME_ID
      [] fn = "verify_equality" -> EQUALITY_SCHEME_ID
      [] fn = "verify_equality_with_commitment" -> EQUALITY_SCHEME_ID
      [] fn = "verify_threshold" -> THRESHOLD_SCHEME_ID
      [] fn = "verify_membership" -> MEMBERSHIP_SCHEME_ID
      [] fn = "verify_improvement" -> IMPROVEMENT_SCHEME_ID
      [] fn = "verify_consistency" -> CONSISTENCY_SCHEME_ID
      [] OTHER -> 0

\* C9: an envelope that decodes with version 1 and a scheme tag other than
\* the verifier's own is rejected by that verifier, whatever its payload,
\* commitment and public inputs.
C9_SchemeIsolation ==
    LET p == from_bytes(pEnv)
    IN  (/\ SchemeOf(pOut.fn) # 0
         /\ p.some
         /\ p.val.version = 1
         /\ p.val.scheme # SchemeOf(pOut.fn))
        => pOut.res = "false"

\* a threshold envelope retagged as a range proof, given to verify_threshold
\* with the prover's threshold
C9_Witness ==
    /\ pSrc.op = "threshold"
    /\ pSrc.tamper = "scheme"
    /\ FromLE(Slice(pEnv, 1, 2)) = 1
    /\ pOut.fn = "verify_threshold"
    /\ pOut.x = pSrc.x
    /\ pOut.res = "false"

-----------------------------------------------------------------------------
(* Compositor specification: compose, serialise, flip, verify              *)

MaxProofs == 2
MaxMeta == 2

\* envelopes a caller may hand in: raw payloads, a range proof, an empty
\* payload, and five bytes that are no envelope
Envelopes ==
    <<  create_proof(1, Run(7, 3), Run(9, 2)),
        prove_range(1, 0, 2, 1).bytes,
        create_proof(2, <<>>, <<>>),
        Run(1, 5)  >>
ValidEnvelopes == {i \in 1..Len(Envelopes) : from_bytes(Envelopes[i]).some}

ProofLists == UNION {[1..n -> 1..Len(Envelopes)] : n \in 0..MaxProofs}
ValidProofLists == UNION {[1..n -> ValidEnvelopes] : n \in 0..MaxProofs}
BytesOf(list) == [i \in 1..Len(list) |-> Envelopes[list[i]]]

\* metadata keys "", "\0", "purpose" and values b"", b"demo"
MetaKeys == <<  <<>>, Byte(0), Str(<<112, 117, 114, 112, 111, 115, 101>>)  >>
MetaValues == <<  <<>>, Str(<<100, 101, 109, 111>>)  >>

\* the HashMaps of at most MaxMeta entries a caller may pass
MetaMaps ==
    UNION {{[i \in 1..n |-> Entry(MetaKeys[ks[i]], MetaValues[vs[i]])] :
                ks \in {f \in [1..n -> 1..Len(MetaKeys)] : \A i, j \in 1..n : i < j => f[i] < f[j]},
                vs \in [1..n -> 1..Len(MetaValues)]} : n \in 0..MaxMeta}

\* the orders in which a HashMap of n entries may iterate
Orders(n) == {f \in [1..n -> 1..n] : \A i, j \in 1..n : i # j => f[i] # f[j]}

KSrc(op, ok, err, meta) == [op |-> op, ok |-> ok, err |-> err, meta |-> meta, tamper |-> "none"]
KOut(fn, res, val) == [fn |-> fn, res |-> res, val |-> val]

SpecCompositeInit == CodecIdle /\ ProofIdle /\ CompositeIdle /\ BatchIdle /\ SetupIdle /\ LockIdle

KFresh == kSrc.op = "none"

\* CompositeProof::new on the decoded envelopes of a list
Compose ==
    \E list \in ValidProofLists :
        /\ KFresh
        /\ LET c == composite_new(DecodeAll(BytesOf(list)).items)
           IN  /\ kComp' = c.val
               /\ kSrc' = KSrc("compose", c.ok, IF c.ok THEN "none" ELSE "InvalidInput", <<>>)
        /\ kBytes' = <<>>
        /\ kOut' = NoKOut
        /\ UNCHANGED <<codecVars, proofVars, batchVars, setupVars, lockVars, fileVars>>

\* CompositeProof::add_metadata on a composite not yet serialised
AddMetadata ==
    \E k \in 1..Len(MetaKeys), v \in 1..Len(MetaValues) :
        /\ kSrc.op = "compose"
        /\ kSrc.ok
        /\ Len(kComp.metadata) < MaxMeta
        /\ kComp' = add_metadata(kComp, MetaKeys[k], MetaValues[v])
        /\ UNCHANGED <<kSrc, kBytes, kOut, codecVars, proofVars, batchVars, setupVars, lockVars, fileVars>>

\* CompositeProof::to_bytes
ToBytes ==
    \E order \in Orders(Len(kComp.metadata)) :
        /\ kSrc.op = "compose"
        /\ kSrc.ok
        /\ kBytes' = composite_to_bytes(kComp, order)
        /\ kSrc' = [kSrc EXCEPT !.op = "to_bytes"]
        /\ UNCHANGED <<kComp, kOut, codecVars, proofVars, batchVars, setupVars, lockVars, fileVars>>

CreateCompositeProof ==
    \E list \in ProofLists :
        /\ KFresh
        /\ LET r == create_composite_proof(BytesOf(list))
           IN  /\ kComp' = r.val
               /\ kBytes' = r.bytes
               /\ kSrc' = KSrc("create_composite_proof", r.ok, r.err, <<>>)
        /\ kOut' = NoKOut
        /\ UNCHANGED <<codecVars, proofVars, batchVars, setupVars, lockVars, fileVars>>

CreateProofWithMetadata ==
    \E e \in 1..Len(Envelopes), metadata \in MetaMaps :
    \E order \in Orders(Len(metadata)) :
        /\ KFresh
        /\ LET r == create_proof_with_metadata(Envelopes[e], metadata, order)
           IN  /\ kComp' = r.val
               /\ kBytes' = r.bytes
               /\ kSrc' = KSrc("create_proof_with_metadata", r.ok, r.err, metadata)
        /\ kOut' = NoKOut
        /\ UNCHANGED <<codecVars, proofVars, batchVars, setupVars, lockVars, fileVars>>

\* the adversary's view of composite bytes --------------------------------

\* where the k-th length-prefixed envelope starts, reading from offset
RECURSIVE EnvelopeStart(_, _, _)
EnvelopeStart(data, offset, k) ==
    IF k = 1 THEN offset + 4
    ELSE EnvelopeStart(data, offset + 4 + FromLE(Slice(data, offset, offset + 4)), k - 1)

\* one byte with one bit inverted; an inverted opaque byte is a new opaque
\* byte, different from every byte a library wrote
FlippedByte(t, bit) ==
    IF IsRaw(t)
    THEN With(t.x[2], LAMBDA v :
             Byte(IF (v \div (2 ^ bit)) % 2 = 1 THEN v - 2 ^ bit ELSE v + 2 ^ bit))
    ELSE ObjBytes(<<"flip", t.x, t.a, bit>>)

\* data with bit `bit` of byte i inverted
FlipAt(data, i, bit) ==
    Cat(Take(data, i), Cat(FlippedByte(Slice(data, i, i + 1)[1], bit), Drop(data, i + 1)))

FlipBits == {0, 7}
\* version, scheme, the two length fields, the first payload byte
EnvelopeFlipOffsets == {0, 1, 2, 6, 10}
DigestFlipOffsets == {0, 31}

\* one bit of an inner envelope, or of the digest, of the bytes that
\* create_composite_proof returned is inverted
FlipBit ==
    /\ kSrc.op = "create_composite_proof"
    /\ kSrc.ok
    /\ kSrc.tamper = "none"
    /\ kOut = NoKOut
    /\ \/ \E k \in 1..MaxProofs, i \in EnvelopeFlipOffsets \cup {-1}, bit \in FlipBits :
            /\ k <= Len(kComp.proofs)
            /\ LET start == EnvelopeStart(kBytes, COMPOSITE_HEADER_LEN, k)
                   len == BLen(to_bytes(kComp.proofs[k]))
               IN  /\ i < len
                   /\ kBytes' = FlipAt(kBytes, start + (IF i = -1 THEN len - 1 ELSE i), bit)
            /\ kSrc' = [kSrc EXCEPT !.tamper = "envelope"]
       \/ \E i \in DigestFlipOffsets, bit \in FlipBits :
            /\ kBytes' = FlipAt(kBytes, BLen(kBytes) - 32 + i, bit)
            /\ kSrc' = [kSrc EXCEPT !.tamper = "digest"]
    /\ UNCHANGED <<kComp, kOut, codecVars, proofVars, batchVars, setupVars, lockVars, fileVars>>

\* calls on the bytes the caller holds ------------------------------------

KHeld == kSrc.op \in {"to_bytes", "create_composite_proof", "create_proof_with_metadata"}
         /\ kSrc.ok /\ kOut = NoKOut

\* CompositeProof::from_bytes
FromBytes ==
    /\ KHeld
    /\ LET c == composite_from_bytes(kBytes)
       IN  kOut' = KOut("from_bytes", IF c.ok THEN "ok" ELSE "err", c.val)
    /\ UNCHANGED <<kSrc, kComp, kBytes, codecVars, proofVars, batchVars, setupVars, lockVars, fileVars>>

VerifyCompositeProof ==
    /\ KHeld
    /\ kOut' = KOut("verify_composite_proof", verify_composite_proof(kBytes), NoComposite)
    /\ UNCHANGED <<kSrc, kComp, kBytes, codecVars, proofVars, batchVars, setupVars, lockVars, fileVars>>

ExtractProofMetadata ==
    /\ KHeld
    /\ LET r == extract_proof_metadata(kBytes)
       IN  kOut' = KOut("extract_proof_metadata", IF r.ok THEN "ok" ELSE "raise", r.val)
    /\ UNCHANGED <<kSrc, kComp, kBytes, codecVars, proofVars, batchVars, setupVars, lockVars, fileVars>>

\* the caller has taken the result
KReturn ==
    /\ kOut # NoKOut
    /\ kOut' = NoKOut
    /\ UNCHANGED <<kSrc, kComp, kBytes, codecVars, proofVars, batchVars, setupVars, lockVars, fileVars>>

SpecCompositeNext ==
    \/ Compose \/ AddMetadata \/ ToBytes
    \/ CreateCompositeProof \/ CreateProofWithMetadata
    \/ FlipBit
    \/ FromBytes \/ VerifyCompositeProof \/ ExtractProofMetadata
    \/ KReturn

SpecComposite == SpecCompositeInit /\ [][SpecCompositeNext]_vars

\* C4: a composite built by compose from a non-empty list of valid
\* envelopes, followed by any number of add_metadata calls, survives
\* to_bytes and decode with the same ordered envelopes, the same metadata map
\* and the same digest; and extract_proof_metadata returns the non-empty map
\* that was given to create_proof_with_metadata.
C4_CompositeRoundTrip ==
    /\ (kSrc.op = "to_bytes" /\ kOut.fn = "from_bytes") =>
            /\ kOut.res = "ok"
            /\ kOut.val.proofs = kComp.proofs
            /\ MapEq(kOut.val.metadata, kComp.metadata)
            /\ kOut.val.composition_hash = kComp.composition_hash
    /\ (/\ kSrc.op = "create_proof_with_metadata"
        /\ kSrc.ok
        /\ kSrc.meta # <<>>
        /\ kOut.fn = "extract_proof_metadata") =>
            /\ kOut.res = "ok"
            /\ MapEq(kOut.val.metadata, kSrc.meta)

\* C5: verify_composite_proof returns true on the bytes create_composite_proof
\* returned for a non-empty list of valid envelopes, and returns false once
\* any one bit of an inner envelope or of the digest has been inverted.
C5_CompositeVerdict ==
    (/\ kSrc.op = "create_composite_proof"
     /\ kSrc.ok
     /\ kOut.fn = "verify_composite_proof") =>
        kOut.res = (IF kSrc.tamper = "none" THEN "true" ELSE "false")

-----------------------------------------------------------------------------
(* Batch specification: create, add, status, process, clear, verify        *)

\* the arguments callers pass: those of examples/demo.rs and, for each kind,
\* arguments its prover refuses
RangeArgs == {<<25, 18, 65>>, <<5, 18, 65>>, <<25, 65, 18>>}
EqualityArgs == {<<42, 42>>, <<1, 2>>}
ThresholdArgs == {<< <<10, 20, 30>>, 50 >>, << <<1, 2>>, 50 >>, << <<>>, 0 >>}
MembershipArgs == {<< 2, <<1, 2, 3, 4>> >>}
ImprovementArgs == {<<10, 11>>, <<11, 10>>}
ConsistencyArgs == {<<10, 20, 20, 30>>}

\* the order in which the demo fills a batch
KindOrder == <<"range", "equality", "threshold", "membership", "improvement", "consistency">>
AddFns == {"batch_add_range_proof", "batch_add_equality_proof", "batch_add_threshold_proof",
           "batch_add_membership_proof", "batch_add_improvement_proof",
           "batch_add_consistency_proof"}

facadeVars == <<pEnv, pSrc, pOut>>

BOut(fn, batch_id, err) ==
    [NoBOut EXCEPT !.fn = fn, !.id = batch_id, !.err = err, !.after = taken[batch_id] > 0]

SpecBatchInit == CodecIdle /\ ProofIdle /\ CompositeIdle /\ BatchIdle /\ SetupIdle /\ LockIdle

\* No call is waiting for its result to be taken, and no worker has run an
\* operation of a batch that is being proved.  A registry call and a worker
\* step commute (the workers touch neither the registry nor the counter, the
\* calls neither the slots nor the setup cells), so the calls made while a
\* batch is proved are explored before its first worker step.
BFree ==
    /\ bOut = NoBOut
    /\ \A t \in Threads : \A i \in 1..Len(procs[t].results) : Pending(procs[t].results[i])

\* no call is waiting for its result to be taken
Taken == bOut = NoBOut

CreateProofBatch ==
    /\ BFree
    /\ counter < MaxBatches
    /\ LET r == create_proof_batch(registry, counter)
       IN  /\ registry' = r.registry
           /\ counter' = r.counter
           /\ bOut' = BOut("create_proof_batch", r.batch_id, "none")
    /\ UNCHANGED <<procs, taken, srs, facadeVars, codecVars, compVars, setupVars, lockVars, fileVars>>

\* a batch_add_* call returns r for the operation op; callers fill a batch
\* kind by kind, in the order of the demo
Added(fn, batch_id, op, r) ==
    /\ r.err = "none" => /\ Len(registry[batch_id]) < Len(KindOrder)
                         /\ KindOrder[Len(registry[batch_id]) + 1] = op.kind
    /\ registry' = r.registry
    /\ bOut' = [BOut(fn, batch_id, r.err) EXCEPT !.op = op]

BatchAddRangeProof ==
    \E batch_id \in BatchIds, a \in RangeArgs :
        /\ BFree
        /\ Added("batch_add_range_proof", batch_id, BatchOperation("range", <<a[1]>>, a[2], a[3]),
                   batch_add_range_proof(registry, batch_id, a[1], a[2], a[3]))
        /\ UNCHANGED <<counter, procs, taken, srs, facadeVars, codecVars, compVars, setupVars, lockVars, fileVars>>

BatchAddEqualityProof ==
    \E batch_id \in BatchIds, a \in EqualityArgs :
        /\ BFree
        /\ Added("batch_add_equality_proof", batch_id, BatchOperation("equality", <<>>, a[1], a[2]),
                   batch_add_equality_proof(registry, batch_id, a[1], a[2]))
        /\ UNCHANGED <<counter, procs, taken, srs, facadeVars, codecVars, compVars, setupVars, lockVars, fileVars>>

BatchAddThresholdProof ==
    \E batch_id \in BatchIds, a \in ThresholdArgs :
        /\ BFree
        /\ Added("batch_add_threshold_proof", batch_id, BatchOperation("threshold", a[1], a[2], 0),
                   batch_add_threshold_proof(registry, batch_id, a[1], a[2]))
        /\ UNCHANGED <<counter, procs, taken, srs, facadeVars, codecVars, compVars, setupVars, lockVars, fileVars>>

BatchAddMembershipProof ==
    \E batch_id \in BatchIds, a \in MembershipArgs :
        /\ BFree
        /\ Added("batch_add_membership_proof", batch_id,
                   BatchOperation("membership", a[2], a[1], 0),
                   batch_add_membership_proof(registry, batch_id, a[1], a[2]))
        /\ UNCHANGED <<counter, procs, taken, srs, facadeVars, codecVars, compVars, setupVars, lockVars, fileVars>>

BatchAddImprovementProof ==
    \E batch_id \in BatchIds, a \in ImprovementArgs :
        /\ BFree
        /\ Added("batch_add_improvement_proof", batch_id,
                   BatchOperation("improvement", <<>>, a[1], a[2]),
                   batch_add_improvement_proof(registry, batch_id, a[1], a[2]))
        /\ UNCHANGED <<counter, procs, taken, srs, facadeVars, codecVars, compVars, setupVars, lockVars, fileVars>>

BatchAddConsistencyProof ==
    \E batch_id \in BatchIds, a \in ConsistencyArgs :
        /\ BFree
        /\ Added("batch_add_consistency_proof", batch_id, BatchOperation("consistency", a, 0, 0),
                   batch_add_consistency_proof(registry, batch_id, a))
        /\ UNCHANGED <<counter, procs, taken, srs, facadeVars, codecVars, compVars, setupVars, lockVars, fileVars>>

GetBatchStatus ==
    \E batch_id \in BatchIds :
        /\ BFree
        /\ LET r == get_batch_status(registry, batch_id)
           IN  bOut' = [BOut("get_batch_status", batch_id, r.err) EXCEPT !.status = r.status]
        /\ UNCHANGED <<registry, counter, procs, taken, srs, facadeVars, codecVars, compVars, setupVars, lockVars, fileVars>>

ClearBatch ==
    \E batch_id \in BatchIds :
        /\ BFree
        /\ LET r == clear_batch(registry, batch_id)
           IN  /\ registry' = r.registry
               /\ bOut' = BOut("clear_batch", batch_id, r.err)
        /\ UNCHANGED <<counter, procs, taken, srs, facadeVars, codecVars, compVars, setupVars, lockVars, fileVars>>

\* process_batch on thread t, up to the release of the registry lock: the
\* call fails, or the thread leaves with the operations
ProcessBatchTake(t) ==
    \E batch_id \in BatchIds :
        /\ BFree
        /\ procs[t].pc = "idle"
        /\ LET r == take_batch(registry, batch_id)
           IN  IF r.err # "none"
               THEN /\ bOut' = BOut("process_batch", batch_id, r.err)
                    /\ UNCHANGED <<registry, procs, taken>>
               ELSE /\ registry' = r.registry
                    /\ procs' = [procs EXCEPT ![t] = [IdleProc EXCEPT !.pc = "proving", !.id = batch_id,
                                                      !.operations = r.operations]]
                    /\ taken' = [taken EXCEPT ![batch_id] = @ + 1]
                    /\ UNCHANGED bOut
        /\ UNCHANGED <<counter, srs, facadeVars, codecVars, compVars, setupVars, lockVars, fileVars>>

\* what the generator of a setup may give: it runs only if the cell is empty
GenFor(cell) == IF cell = "unset" THEN SetupOutcomes ELSE {cell}

\* the cells a failed batch may leave behind: the pool stops handing out
\* operations once one has failed, so an operation that would have run a setup
\* may not have started, as long as some failed operation did run
CellsAfterFailure(operations, results, before, after) ==
    {[equality |-> IF ran_e THEN after.equality ELSE before.equality,
      membership |-> IF ran_m THEN after.membership ELSE before.membership] :
        <<ran_e, ran_m>> \in
            {rr \in BOOLEAN \X BOOLEAN :
                \E i \in 1..Len(results) :
                    /\ ~results[i].ok
                    /\ operations[i].kind = "equality" => rr[1]
                    /\ operations[i].kind = "membership" => rr[2]}}

\* process_batch on thread t, after the lock: the operations are proved and
\* the call returns
ProcessBatchProve(t) ==
    \E blindings \in BlindingLists,
       gen_e \in GenFor(srs.equality), gen_m \in GenFor(srs.membership) :
        /\ BFree
        /\ procs[t].pc = "proving"
        /\ LET operations == procs[t].operations
               mapped == MapOperations(operations, blindings, srs, gen_e, gen_m)
               r == CollectResults(mapped.res)
           IN  /\ bOut' = [BOut("process_batch", procs[t].id, r.err) EXCEPT
                               !.after = FALSE, !.operations = operations,
                               !.results = mapped.res, !.proofs = r.proofs]
               /\ IF r.err = "none" THEN srs' = mapped.cell
                  ELSE srs' \in CellsAfterFailure(operations, mapped.res, srs, mapped.cell)
        /\ procs' = [procs EXCEPT ![t] = IdleProc]
        /\ UNCHANGED <<registry, counter, taken, facadeVars, codecVars, compVars, setupVars, lockVars, fileVars>>

\* verify_proofs_parallel on the envelopes process_batch returned, each with
\* the kind of its operation
BatchVerifyParallel ==
    \E gen \in GenFor(srs.equality) :
        /\ bOut.fn = "process_batch"
        /\ bOut.err = "none"
        /\ ~bOut.after
        /\ LET typed == [i \in 1..Len(bOut.proofs) |-> <<bOut.proofs[i], bOut.operations[i].kind>>]
               o == verify_proofs_parallel(typed, srs.equality, gen)
           IN  /\ bOut' = [bOut EXCEPT !.fn = "verify_proofs_parallel", !.verdicts = o.res]
               /\ srs' = [srs EXCEPT !.equality = o.cell]
        /\ UNCHANGED <<registry, counter, procs, taken, facadeVars, codecVars, compVars, setupVars, lockVars, fileVars>>

\* the caller has taken the result
BReturn ==
    /\ ~Taken
    /\ bOut.fn # "verifying"
    /\ bOut' = NoBOut
    /\ UNCHANGED <<registry, counter, procs, taken, srs, facadeVars, codecVars, compVars, setupVars, lockVars, fileVars>>

SpecBatchNext ==
    \/ CreateProofBatch
    \/ BatchAddRangeProof \/ BatchAddEqualityProof \/ BatchAddThresholdProof
    \/ BatchAddMembershipProof \/ BatchAddImprovementProof \/ BatchAddConsistencyProof
    \/ GetBatchStatus \/ ClearBatch
    \/ \E t \in Threads : ProcessBatchTake(t)
    \/ \E t \in Threads : ProcessBatchProve(t)
    \/ BatchVerifyParallel
    \/ BReturn

SpecBatch == SpecBatchInit /\ [][SpecBatchNext]_vars

\* C2: for the envelopes of a processed batch that holds one operation of each
\* of the six kinds, verify_proofs_parallel, given each envelope with its own
\* kind, returns true at every index.
C2_BatchOutputVerifies ==
    (/\ bOut.fn = "verify_proofs_parallel"
     /\ Len(bOut.operations) = Len(KindOrder)
     /\ \A i \in 1..Len(KindOrder) : bOut.operations[i].kind = KindOrder[i])
    => \A i \in 1..Len(bOut.verdicts) : bOut.verdicts[i] = "true"

\* the arguments of a batch_add_* call pass the validation of that function
ArgsValid(op) ==
    CASE op.kind = "range" -> validate_range_params(op.vals[1], op.x, op.y)
      [] op.kind = "equality" -> op.x = op.y
      [] op.kind = "threshold" -> validate_threshold_params(op.vals, op.x) = "ok"
      [] OTHER -> TRUE

\* C10, as the specification states it: once a process_batch call has found
\* the batch, every later process_batch, batch_add_* and get_batch_status
\* call on its id fails with the invalid-batch-id error, and no second
\* process_batch call obtains the operations.
C10_LaterCallsInvalidBatchId ==
    /\ \A id \in BatchIds : taken[id] <= 1
    /\ (bOut.after /\ bOut.fn \in AddFns \cup {"process_batch", "get_batch_status"})
        => bOut.err = INVALID_BATCH_ID

\* C10, amended: no second process_batch call obtains the operations; later
\* process_batch and get_batch_status calls fail with the invalid-batch-id
\* error; a later batch_add_* call fails too, with the invalid-batch-id error
\* when its arguments pass validation and with the validation error when
\* they do not, because the arguments are validated before the lookup.
C10_BatchConsumedOnce ==
    /\ \A id \in BatchIds : taken[id] <= 1
    /\ (bOut.after /\ bOut.fn \in {"process_batch", "get_batch_status"})
        => bOut.err = INVALID_BATCH_ID
    /\ (bOut.after /\ bOut.fn \in AddFns)
        => /\ bOut.err # "none"
           /\ bOut.err = INVALID_BATCH_ID <=> ArgsValid(bOut.op)

\* while one thread is proving the operations of batch 0, a second
\* process_batch(0) has failed
C10_Witness ==
    /\ \E t \in Threads : procs[t].pc = "proving" /\ procs[t].id = 0
    /\ bOut.fn = "process_batch"
    /\ bOut.id = 0
    /\ bOut.after
    /\ bOut.err = INVALID_BATCH_ID

-----------------------------------------------------------------------------
(* Dispatcher specification: the workers of process_batch and of           *)
(* verify_proofs_parallel, one operation at a time                         *)

\* the dispatcher is observed on the first batch of the process
DispatchCreate ==
    /\ counter = 0
    /\ CreateProofBatch

\* process_batch on thread t, up to the release of the registry lock, with
\* the OsRng draws its provers will make: the call fails, or the thread
\* leaves with the operations and an empty slot for each.  The batches are
\* proved one at a time: a call that finds its batch is made while no other
\* call is proving, and, the threads being interchangeable, on the first of
\* them.
DispatchTake(t) ==
    \E batch_id \in BatchIds, blindings \in BlindingLists :
        /\ BFree
        /\ procs[t].pc = "idle"
        /\ LET r == take_batch(registry, batch_id)
           IN  IF r.err # "none"
               THEN /\ bOut' = BOut("process_batch", batch_id, r.err)
                    /\ UNCHANGED <<registry, procs, taken>>
               ELSE /\ \A u \in Threads : procs[u].pc = "idle"
                    /\ t = "t1"
                    /\ registry' = r.registry
                    /\ procs' = [procs EXCEPT ![t] =
                                    [pc |-> "proving", id |-> batch_id,
                                     operations |-> r.operations,
                                     blindings |-> blindings,
                                     results |-> [i \in 1..Len(r.operations) |-> NoResult],
                                     reordered |-> FALSE]]
                    /\ taken' = [taken EXCEPT ![batch_id] = @ + 1]
                    /\ UNCHANGED bOut
        /\ UNCHANGED <<counter, srs, facadeVars, codecVars, compVars, setupVars, lockVars, fileVars>>

\* process_batch on thread t, after the lock: a worker of the pool runs one
\* operation that has not run yet, whichever it picks, and writes the result
\* to the slot of that operation
ProcessBatchRun(t) ==
    \E i \in 1..Len(procs[t].operations),
       gen_e \in GenFor(srs.equality), gen_m \in GenFor(srs.membership) :
        /\ Taken
        /\ procs[t].pc = "proving"
        /\ Pending(procs[t].results[i])
        /\ LET o == process_batch_operation(procs[t].operations[i], procs[t].blindings,
                                            srs, gen_e, gen_m)
           IN  /\ procs' = [procs EXCEPT
                               ![t].results[i] = o.res,
                               ![t].reordered =
                                   @ \/ \E k \in 1..(i - 1) : Pending(procs[t].results[k])]
               /\ srs' = o.cell
        /\ UNCHANGED <<registry, counter, taken, bOut, facadeVars, codecVars, compVars, setupVars, lockVars, fileVars>>

\* process_batch on thread t: the collect finishes and the call returns
ProcessBatchCollect(t) ==
    /\ Taken
    /\ procs[t].pc = "proving"
    /\ Collectable(procs[t].results)
    /\ LET r == CollectResults(procs[t].results)
       IN  bOut' = [BOut("process_batch", procs[t].id, r.err) EXCEPT
                        !.after = FALSE, !.operations = procs[t].operations,
                        !.results = procs[t].results, !.reordered = procs[t].reordered,
                        !.proofs = r.proofs]
    /\ procs' = [procs EXCEPT ![t] = IdleProc]
    /\ UNCHANGED <<registry, counter, taken, srs, facadeVars, codecVars, compVars, setupVars, lockVars, fileVars>>

\* verify_proofs_parallel on the envelopes process_batch returned, each with
\* the kind of its operation: the call starts with an empty verdict per pair
VerifyParallelStart ==
    /\ bOut.fn = "process_batch"
    /\ bOut.err = "none"
    /\ ~bOut.after
    /\ bOut' = [bOut EXCEPT !.fn = "verifying",
                            !.verdicts = [i \in 1..Len(bOut.proofs) |-> "none"]]
    /\ UNCHANGED <<registry, counter, procs, taken, srs, facadeVars, codecVars, compVars, setupVars, lockVars, fileVars>>

\* a worker verifies one pair that has not been verified yet, whichever it
\* picks, and writes the verdict to the slot of that pair
VerifyParallelRun ==
    \E i \in 1..Len(bOut.verdicts), gen \in GenFor(srs.equality) :
        /\ bOut.fn = "verifying"
        /\ bOut.verdicts[i] = "none"
        /\ LET o == verify_single_proof(bOut.proofs[i], bOut.operations[i].kind,
                                        srs.equality, gen)
           IN  /\ bOut' = [bOut EXCEPT !.verdicts[i] = o.res]
               /\ srs' = [srs EXCEPT !.equality = o.cell]
        /\ UNCHANGED <<registry, counter, procs, taken, facadeVars, codecVars, compVars, setupVars, lockVars, fileVars>>

\* every pair has its verdict: the call returns the vector
VerifyParallelCollect ==
    /\ bOut.fn = "verifying"
    /\ \A i \in 1..Len(bOut.verdicts) : bOut.verdicts[i] # "none"
    /\ bOut' = [bOut EXCEPT !.fn = "verify_proofs_parallel"]
    /\ UNCHANGED <<registry, counter, procs, taken, srs, facadeVars, codecVars, compVars, setupVars, lockVars, fileVars>>

SpecDispatchNext ==
    \/ DispatchCreate
    \/ BatchAddRangeProof \/ BatchAddEqualityProof \/ BatchAddThresholdProof
    \/ BatchAddMembershipProof \/ BatchAddImprovementProof \/ BatchAddConsistencyProof
    \/ \E t \in Threads : DispatchTake(t)
    \/ \E t \in Threads : ProcessBatchRun(t)
    \/ \E t \in Threads : ProcessBatchCollect(t)
    \/ VerifyParallelStart \/ VerifyParallelRun \/ VerifyParallelCollect
    \/ BReturn

SpecDispatch == SpecBatchInit /\ [][SpecDispatchNext]_vars

\* the envelopes process_batch_operation can return for op
ProofsOf(op) ==
    {process_batch_operation(op, b, [equality |-> "ok", membership |-> "ok"],
                             "ok", "ok").res.bytes : b \in BlindingLists}

\* the verdicts verify_single_proof can give on a pair
VerdictsOf(proof, kind) ==
    {verify_single_proof(proof, kind, c, c).res : c \in SetupOutcomes}

\* C11: when process_batch succeeds it returns one envelope per operation and
\* the i-th envelope is a proof of the i-th operation, in whatever order the
\* workers ran the operations; verify_proofs_parallel returns one verdict per
\* pair and the i-th verdict is that of the i-th pair.
C11_OrderPreserved ==
    /\ (bOut.fn \in {"process_batch", "verifying", "verify_proofs_parallel"}
        /\ bOut.err = "none")
       => /\ Len(bOut.proofs) = Len(bOut.operations)
          /\ \A i \in 1..Len(bOut.proofs) : bOut.proofs[i] \in ProofsOf(bOut.operations[i])
    /\ bOut.fn = "verify_proofs_parallel"
       => /\ Len(bOut.verdicts) = Len(bOut.proofs)
          /\ \A i \in 1..Len(bOut.verdicts) :
                bOut.verdicts[i] \in VerdictsOf(bOut.proofs[i], bOut.operations[i].kind)

\* the six operations of the demo were proved out of their input order and
\* process_batch returned their six envelopes
C11_Witness ==
    /\ bOut.fn = "process_batch"
    /\ bOut.err = "none"
    /\ bOut.reordered
    /\ Len(bOut.proofs) = Len(KindOrder)

\* C12: if proving failed for an operation of the batch, process_batch returns
\* an error and no envelope; it returns envelopes only when every operation
\* of the batch succeeded.
C12_AllOrNothing ==
    bOut.fn = "process_batch"
    => /\ (\E i \in 1..Len(bOut.results) :
              ~Pending(bOut.results[i]) /\ ~bOut.results[i].ok)
          => (bOut.err # "none" /\ bOut.proofs = <<>>)
       /\ bOut.err = "none"
          => /\ \A i \in 1..Len(bOut.results) : bOut.results[i].ok
             /\ Len(bOut.proofs) = Len(bOut.operations)

\* one operation of the batch was proved, another failed, and process_batch
\* returned the error alone
C12_Witness ==
    /\ bOut.fn = "process_batch"
    /\ bOut.err = PROOF_GENERATION_FAILED
    /\ bOut.proofs = <<>>
    /\ \E i \in 1..Len(bOut.results) : bOut.results[i].ok
    /\ \E i \in 1..Len(bOut.results) : ~Pending(bOut.results[i]) /\ ~bOut.results[i].ok


-----------------------------------------------------------------------------
(* Setup specification: the key directory and the two setup cells, one     *)
(* step of each call at a time                                             *)

CONFIG_ERROR == "ConfigError"
\* the states the key files of one circuit can be in when the process starts:
\* none, only one of the two, both but unreadable or undeserialisable, or a
\* valid pair written earlier
DiskStates == {"absent", "partial", "torn", "disk"}

\* UNIVERSAL_SETUP.get().is_some() || MEMBERSHIP_SETUP.get().is_some()
SetupInitialized(cells) == cells.equality # "unset" \/ cells.membership # "unset"

\* SNARK_KEY_DIR.get_or_init(|| value): what the cell holds afterwards
KeyDirGetOrInit(stored, value) == IF stored = "uninit" THEN value ELSE stored

DirConflictNever(stored, requested) == FALSE

\* if let Some(existing) = stored { if existing != &requested ...
DirConflict(stored, requested) == stored # "none" /\ stored # requested

GetOrInitUnguarded(state) == IF state = "set" THEN "read" ELSE "run"

\* OnceLock::get_or_init on a setup cell: the first caller runs the closure,
\* callers that arrive while it runs wait, later callers read the value
GetOrInit(state) ==
    CASE state = "unset" -> "run"
      [] state = "running" -> "wait"
      [] OTHER -> "read"

\* load_pk_vk on the files of one circuit: Ok(None), Err(message) or Ok(Some(pair))
load_pk_vk(files) ==
    IF files \in {"absent", "partial"}
    THEN [err |-> "none", some |-> FALSE, pair |-> "none"]
    ELSE IF files = "torn"
         THEN [err |-> "failed to deserialize proving key", some |-> FALSE, pair |-> "none"]
         ELSE [err |-> "none", some |-> TRUE, pair |-> files]

SpecSetupInit ==
    /\ CodecIdle /\ ProofIdle /\ CompositeIdle /\ BatchIdle /\ LockIdle
    /\ keyDir = "uninit"
    /\ envDir \in {"none", "a"}
    /\ \E files \in DiskStates :
          keyFiles = [d \in Dirs |-> [c \in Circuits |->
                                         IF d = "a" THEN files ELSE "absent"]]
    /\ cellRun = [c \in Circuits |-> FreshCell]
    /\ callers = [t \in Threads |-> IdleCaller]

\* the thread is between two calls
Between(t) == callers[t].pc \in {"idle", "returned"}
Returned(call, ret) == [call EXCEPT !.pc = "returned", !.ret = ret]

\* set_snark_key_dir, the two checks before the directory is touched
SetSnarkKeyDir(t) ==
    \E path \in Dirs \cup {""} :
        /\ Between(t)
        /\ LET call == [IdleCaller EXCEPT !.fn = "set_key_dir", !.path = path,
                           !.before = [initialized |-> SetupInitialized(srs), dir |-> keyDir]]
           IN  callers' = [callers EXCEPT ![t] =
                   IF path = "" \/ SetupInitialized(srs)
                   THEN Returned(call, CONFIG_ERROR)
                   ELSE [call EXCEPT !.pc = "store_dir"]]
        /\ UNCHANGED <<keyDir, envDir, keyFiles, cellRun, srs, facadeVars, codecVars,
                       compVars, batchVars, lockVars, fileVars>>

\* set_snark_key_dir from get_or_init to its return
SetSnarkKeyDirStore(t) ==
    /\ callers[t].pc = "store_dir"
    /\ LET requested == callers[t].path
           stored == KeyDirGetOrInit(keyDir, requested)
           call == [callers[t] EXCEPT !.wrote = keyDir = "uninit"]
       IN  /\ keyDir' = stored
           /\ IF DirConflict(stored, requested)
              THEN /\ callers' = [callers EXCEPT ![t] = Returned(call, CONFIG_ERROR)]
                   /\ UNCHANGED envDir
              ELSE /\ callers' = [callers EXCEPT ![t] = Returned(call, "ok")]
                   /\ envDir' = requested
    /\ UNCHANGED <<keyFiles, cellRun, srs, facadeVars, codecVars, compVars, batchVars, lockVars, fileVars>>

\* the outcome a caller is handed is the one the cell holds
ReadCell(call, cell) == [Returned(call, "ok") EXCEPT !.outcome = cell.value]

\* get_universal_setup and get_membership_setup, as the first proving or
\* verifying call on a circuit reaches them
GetSetup(t) ==
    \E c \in Circuits :
        /\ Between(t)
        /\ LET call == [IdleCaller EXCEPT !.fn = "get_setup", !.circuit = c]
               todo == GetOrInit(cellRun[c].state)
           IN  CASE todo = "run" ->
                      /\ cellRun' = [cellRun EXCEPT ![c].state = "running", ![c].runs = @ + 1]
                      /\ callers' = [callers EXCEPT ![t] = [call EXCEPT !.pc = "key_dir"]]
                 [] todo = "wait" ->
                      /\ callers' = [callers EXCEPT ![t] =
                                        [call EXCEPT !.pc = "waiting", !.waited = TRUE]]
                      /\ UNCHANGED cellRun
                 [] OTHER ->
                      /\ callers' = [callers EXCEPT ![t] = ReadCell(call, cellRun[c])]
                      /\ cellRun' = [cellRun EXCEPT ![c].seen = @ \cup {cellRun[c].value}]
        /\ UNCHANGED <<keyDir, envDir, keyFiles, srs, facadeVars, codecVars, compVars,
                       batchVars, lockVars, fileVars>>

\* a caller that waited in get_or_init is handed the stored outcome
GetSetupWake(t) ==
    /\ callers[t].pc = "waiting"
    /\ LET c == callers[t].circuit
       IN  /\ GetOrInit(cellRun[c].state) = "read"
           /\ callers' = [callers EXCEPT ![t] = ReadCell(callers[t], cellRun[c])]
           /\ cellRun' = [cellRun EXCEPT ![c].seen = @ \cup {cellRun[c].value}]
    /\ UNCHANGED <<keyDir, envDir, keyFiles, srs, facadeVars, codecVars, compVars,
                   batchVars, lockVars, fileVars>>

\* get_key_dir: if let Some(dir) = SNARK_KEY_DIR.get() { return dir.clone() }
GetKeyDir(t) ==
    /\ callers[t].pc = "key_dir"
    /\ callers' = [callers EXCEPT ![t] =
           IF keyDir # "uninit" THEN [@ EXCEPT !.pc = "load", !.dir = keyDir]
           ELSE [@ EXCEPT !.pc = "key_dir_env"]]
    /\ UNCHANGED <<keyDir, envDir, keyFiles, cellRun, srs, facadeVars, codecVars,
                   compVars, batchVars, lockVars, fileVars>>

\* get_key_dir: let env_dir = env::var("LIBZKP_SNARK_KEY_DIR").ok()
GetKeyDirEnv(t) ==
    /\ callers[t].pc = "key_dir_env"
    /\ callers' = [callers EXCEPT ![t] = [@ EXCEPT !.pc = "key_dir_init", !.dir = envDir]]
    /\ UNCHANGED <<keyDir, envDir, keyFiles, cellRun, srs, facadeVars, codecVars,
                   compVars, batchVars, lockVars, fileVars>>

\* get_key_dir: SNARK_KEY_DIR.get_or_init(|| env_dir.clone()); env_dir
GetKeyDirInit(t) ==
    /\ callers[t].pc = "key_dir_init"
    /\ keyDir' = KeyDirGetOrInit(keyDir, callers[t].dir)
    /\ callers' = [callers EXCEPT ![t].pc = "load"]
    /\ UNCHANGED <<envDir, keyFiles, cellRun, srs, facadeVars, codecVars, compVars,
                   batchVars, lockVars, fileVars>>

\* load_or_generate_*_setup from key_paths to the match on load_pk_vk(..)?
LoadOrGenerate(t) ==
    /\ callers[t].pc = "load"
    /\ LET c == callers[t].circuit
           dir == callers[t].dir
       IN  IF dir = "none"
           THEN /\ callers' = [callers EXCEPT ![t].pc = "generate", ![t].persist = FALSE]
                /\ cellRun' = [cellRun EXCEPT ![c].found = "nodir"]
           ELSE LET r == load_pk_vk(keyFiles[dir][c])
                IN  /\ cellRun' = [cellRun EXCEPT ![c].found = keyFiles[dir][c]]
                    /\ callers' = [callers EXCEPT ![t] =
                           IF r.err # "none"
                           THEN [@ EXCEPT !.pc = "store", !.outcome = SetupErr(r.err)]
                           ELSE IF r.some
                                THEN [@ EXCEPT !.pc = "store", !.outcome = KeyPair(r.pair)]
                                ELSE [@ EXCEPT !.pc = "generate", !.persist = TRUE]]
    /\ UNCHANGED <<keyDir, envDir, keyFiles, srs, facadeVars, codecVars, compVars,
                   batchVars, lockVars, fileVars>>

\* generate_equality_setup and generate_membership_setup: a pair drawn from
\* OsRng, named after the thread that drew it, or a setup error
GenerateSetup(t) ==
    \E gen \in SetupOutcomes :
        /\ callers[t].pc = "generate"
        /\ callers' = [callers EXCEPT ![t] =
               IF gen = "err"
               THEN [@ EXCEPT !.pc = "store", !.outcome = SetupErr("setup failed")]
               ELSE [@ EXCEPT !.pc = IF callers[t].persist THEN "persist" ELSE "store",
                              !.outcome = KeyPair(t)]]
        /\ UNCHANGED <<keyDir, envDir, keyFiles, cellRun, srs, facadeVars, codecVars,
                       compVars, batchVars, lockVars, fileVars>>

\* if let Err(e) = persist_pk_vk(..) { let _ = e; } return Ok(pair)
persist_result_propagated(pair, written) ==
    IF written = "ok" THEN pair ELSE SetupErr("failed to write proving key")
persist_result(pair, written) == pair

\* persist_pk_vk: both files written; files left unreadable by a write that
\* stopped half way; the proving key written and the verifying key not; or
\* nothing written, when the directory cannot be created or the first write
\* fails.  Its error is dropped by the caller.
PersistPkVk(t) ==
    \E written \in {"ok", "torn", "partial", "failed"} :
        /\ callers[t].pc = "persist"
        /\ LET c == callers[t].circuit
               dir == callers[t].dir
           IN  /\ keyFiles' = [keyFiles EXCEPT ![dir][c] =
                       CASE written = "ok" -> callers[t].outcome.pair
                         [] written = "torn" -> "torn"
                         [] written = "partial" -> "partial"
                         [] OTHER -> @]
               /\ cellRun' = [cellRun EXCEPT ![c].persisted = written,
                                             ![c].generated = callers[t].outcome.pair]
        /\ callers' = [callers EXCEPT ![t].pc = "store",
                                      ![t].outcome = persist_result(@, written)]
        /\ UNCHANGED <<keyDir, envDir, srs, facadeVars, codecVars, compVars,
                       batchVars, lockVars, fileVars>>

\* get_or_init stores what the closure returned and hands it to the caller
StoreSetup(t) ==
    /\ callers[t].pc = "store"
    /\ LET c == callers[t].circuit
           outcome == callers[t].outcome
       IN  /\ cellRun' = [cellRun EXCEPT ![c].state = "set", ![c].value = outcome,
                                         ![c].seen = @ \cup {outcome}]
           /\ srs' = [srs EXCEPT ![c] = IF outcome.ok THEN "ok" ELSE "err"]
           /\ callers' = [callers EXCEPT ![t] = Returned(callers[t], "ok")]
    /\ UNCHANGED <<keyDir, envDir, keyFiles, facadeVars, codecVars, compVars, batchVars, lockVars, fileVars>>

SpecSetupNext ==
    \/ \E t \in Threads : SetSnarkKeyDir(t)
    \/ \E t \in Threads : SetSnarkKeyDirStore(t)
    \/ \E t \in Threads : GetSetup(t)
    \/ \E t \in Threads : GetSetupWake(t)
    \/ \E t \in Threads : GetKeyDir(t)
    \/ \E t \in Threads : GetKeyDirEnv(t)
    \/ \E t \in Threads : GetKeyDirInit(t)
    \/ \E t \in Threads : LoadOrGenerate(t)
    \/ \E t \in Threads : GenerateSetup(t)
    \/ \E t \in Threads : PersistPkVk(t)
    \/ \E t \in Threads : StoreSetup(t)

SpecSetup == SpecSetupInit /\ [][SpecSetupNext]_vars

\* C13: set_snark_key_dir succeeds only if, when it was called, neither setup
\* cell was initialised and the stored directory was unset or equal to the
\* path; a call with an empty path, a call made after a cell was initialised
\* and a call naming another directory than the stored one return ConfigError,
\* and a call that returns an error has not written the stored directory.
C13_SetKeyDirGuard ==
    \A t \in Threads :
        (callers[t].pc = "returned" /\ callers[t].fn = "set_key_dir")
        => LET call == callers[t]
               free == call.before.dir \in {"uninit", "none", call.path}
           IN  /\ call.ret = "ok"
                  => call.path # "" /\ ~call.before.initialized /\ free
               /\ (call.path = "" \/ call.before.initialized \/ ~free)
                  => call.ret = CONFIG_ERROR
               /\ call.ret # "ok" => call.ret = CONFIG_ERROR /\ ~call.wrote

C13_Witness ==
    \E t, u \in Threads :
        /\ callers[t].pc = "returned" /\ callers[t].fn = "set_key_dir"
        /\ callers[t].ret = "ok" /\ callers[t].wrote /\ keyDir = callers[t].path
        /\ callers[u].pc = "returned" /\ callers[u].fn = "set_key_dir"
        /\ callers[u].ret = CONFIG_ERROR /\ callers[u].path \in Dirs
        /\ callers[u].before.dir = keyDir /\ ~callers[u].before.initialized

\* the steps of a call that is running the load-or-generate routine
RunSteps == {"key_dir", "key_dir_env", "key_dir_init", "load", "generate", "persist",
             "store"}

\* C14: for each circuit the load-or-generate routine is started at most once
\* and by one thread at a time, callers that arrive meanwhile wait, and every
\* caller is handed the one outcome the cell holds, pair or error.
C14_CellWriteOnce ==
    \A c \in Circuits :
        /\ cellRun[c].runs <= 1
        /\ Cardinality({t \in Threads : callers[t].circuit = c
                                         /\ callers[t].pc \in RunSteps}) <= 1
        /\ cellRun[c].state = "unset" <=> cellRun[c].runs = 0
        /\ cellRun[c].seen \subseteq
               (IF cellRun[c].state = "set" THEN {cellRun[c].value} ELSE {})
        /\ \A t \in Threads :
               (callers[t].pc = "returned" /\ callers[t].fn = "get_setup"
                /\ callers[t].circuit = c)
               => cellRun[c].state = "set" /\ callers[t].outcome = cellRun[c].value

C14_Witness ==
    \E c \in Circuits, t, u \in Threads :
        /\ t # u
        /\ cellRun[c].state = "set" /\ ~cellRun[c].value.ok /\ cellRun[c].runs = 1
        /\ callers[t].pc = "returned" /\ callers[t].circuit = c /\ callers[t].waited
        /\ callers[u].pc = "returned" /\ callers[u].circuit = c /\ ~callers[u].waited
        /\ callers[t].outcome = callers[u].outcome

\* C15: a setup cell whose routine found both key files of its circuit but
\* could not read or deserialise them holds a key pair, not an error.
C15_TornFilesFallBack ==
    \A c \in Circuits :
        (cellRun[c].state = "set" /\ cellRun[c].found = "torn") => cellRun[c].value.ok

\* C24: when the routine of a circuit found no key files under the key
\* directory, generated a pair and could not write it (nothing written, only
\* the proving key written, or files left unreadable), the cell holds that
\* pair, the circuit is usable, and every caller was handed that pair
C24_PersistFailureNonFatal ==
    \A c \in Circuits :
        (cellRun[c].state = "set" /\ cellRun[c].persisted \in {"failed", "partial", "torn"})
        => /\ cellRun[c].value = KeyPair(cellRun[c].generated)
           /\ srs[c] = "ok"
           /\ cellRun[c].seen = {cellRun[c].value}
           /\ \A t \in Threads :
                  (callers[t].pc = "returned" /\ callers[t].fn = "get_setup"
                   /\ callers[t].circuit = c)
                  => callers[t].outcome = KeyPair(cellRun[c].generated)

\* the files were absent, nothing could be written, and both threads hold
\* the generated pair: the one that ran the routine and one that came later
C24_Witness ==
    \E c \in Circuits, t, u \in Threads :
        /\ t # u
        /\ cellRun[c].state = "set"
        /\ cellRun[c].found = "absent" /\ cellRun[c].persisted = "failed"
        /\ callers[t].pc = "returned" /\ callers[t].fn = "get_setup" /\ callers[t].circuit = c
        /\ callers[u].pc = "returned" /\ callers[u].fn = "get_setup" /\ callers[u].circuit = c
        /\ callers[t].outcome = KeyPair(t)
        /\ callers[u].outcome = KeyPair(t)

\* C25: once set_snark_key_dir(path) has returned success, the stored key
\* directory, which every later load-or-generate routine reads, is path
C25_SetKeyDirEffective ==
    \A t \in Threads :
        (callers[t].pc = "returned" /\ callers[t].fn = "set_key_dir" /\ callers[t].ret = "ok")
        => keyDir = callers[t].path


-----------------------------------------------------------------------------
(* Error kinds of the integer sums                                         *)

INVALID_INPUT == "InvalidInput"
INTEGER_OVERFLOW == "IntegerOverflow"

\* impl From<ZkpError> for PyErr: the exception a kind is raised as
PyErrFrom(kind) ==
    CASE kind \in {INVALID_INPUT, "ValidationError"} -> "PyValueError"
      [] kind = INTEGER_OVERFLOW -> "PyOverflowError"
      [] kind \in {"InvalidProofFormat", CONFIG_ERROR} -> "PyTypeError"
      [] OTHER -> "PyRuntimeError"

\* validation::validate_threshold_params, with the kind of the error it returns
validate_threshold_params_kind(values, threshold) ==
    IF values = <<>> THEN [ok |-> FALSE, val |-> 0, kind |-> INVALID_INPUT]
    ELSE With(CheckedSum(values), LAMBDA sum :
             IF ~sum.some THEN [ok |-> FALSE, val |-> 0, kind |-> INVALID_INPUT]
             ELSE IF sum.val < threshold
                  THEN [ok |-> FALSE, val |-> 0, kind |-> INVALID_INPUT]
                  ELSE [ok |-> TRUE, val |-> sum.val, kind |-> "none"])

\* proof_helpers::safe_sum
safe_sum(values) ==
    With(CheckedSum(values), LAMBDA sum :
        IF ~sum.some THEN [ok |-> FALSE, val |-> 0, kind |-> INVALID_INPUT]
        ELSE [ok |-> TRUE, val |-> sum.val, kind |-> "none"])

\* C16: when the sum of the values of a threshold call exceeds the 64-bit
\* range, validate_threshold_params and safe_sum return the kind
\* IntegerOverflow on those values and the threshold prover raises the
\* exception IntegerOverflow is raised as.
C16_OverflowIsIntegerOverflow ==
    (pSrc.op = "threshold" /\ ~CheckedSum(pSrc.vals).some)
    => /\ validate_threshold_params_kind(pSrc.vals, pSrc.x).kind = INTEGER_OVERFLOW
       /\ safe_sum(pSrc.vals).kind = INTEGER_OVERFLOW
       /\ pSrc.err = PyErrFrom(INTEGER_OVERFLOW)


Occurrences(seq, v) == Cardinality({i \in 1..Len(seq) : seq[i] = v})
SameMultiset(a, b) ==
    /\ Len(a) = Len(b)
    /\ \A i \in 1..Len(a) : Occurrences(a, a[i]) = Occurrences(b, a[i])

\* C18: the envelope prove_membership(v, S) returns is accepted by
\* verify_membership(envelope, S') when S' is S in any order, and rejected
\* when S' and S differ as multisets.
C18_MembershipSetBinding ==
    HonestCall("membership", "verify_membership")
    => (pOut.res = "true" <=> SameMultiset(pOut.vals, pSrc.vals))

C18_Witness ==
    /\ HonestCall("membership", "verify_membership")
    /\ pSrc.vals = <<1, 2, 3>> /\ pOut.vals = <<3, 2, 1>> /\ pOut.res = "true"


\* the old values a verifier may name: the prover's domain and the largest u64
OldValues == Values \cup {U64_MAX}

\* C19: for old < new the commitment commit_improvement(old, new) is accepted
\* by validate_improvement_commitment(commitment, old'), yielding new, exactly
\* when old' = old; a commitment with diff = 0 or of a length other than 16
\* is rejected for every old'; and verify_improvement accepts the envelope of
\* prove_improvement(old, new) exactly when it is given old.
C19_ImprovementBoundToOld ==
    (pSrc.op = "improvement" /\ pSrc.ok)
    => LET old == pSrc.x
           new == pSrc.y
           commitment == commit_improvement(old, new)
       IN  /\ old < new
           /\ BLen(commitment) = 16
           /\ \A o \in OldValues :
                 validate_improvement_commitment(commitment, o) =
                     IF o = old THEN [some |-> TRUE, val |-> new]
                     ELSE [some |-> FALSE, val |-> 0]
           /\ \A o \in OldValues :
                 /\ ~validate_improvement_commitment(Cat(ToLE(0, 8), ToLE(new, 8)), o).some
                 /\ ~validate_improvement_commitment(Take(commitment, 15), o).some
                 /\ ~validate_improvement_commitment(Cat(commitment, ToLE(0, 1)), o).some
           /\ HonestCall("improvement", "verify_improvement")
              => (pOut.res = "true" <=> pOut.x = old)

C19_Witness ==
    /\ HonestCall("improvement", "verify_improvement")
    /\ pSrc.x = 0 /\ pSrc.y = MaxVal
    /\ pOut.x = 1 /\ pOut.res = "false"
    /\ ~CheckedAdd(U64_MAX, pSrc.y - pSrc.x).some


\* the compositor before serialisation: a composite is built and its metadata
\* edited, one insertion or overwrite at a time
SpecMetadataNext ==
    \/ Compose
    \/ AddMetadata

SpecMetadata == SpecCompositeInit /\ [][SpecMetadataNext]_vars

\* C20: a step of add_metadata on a composite leaves its inner envelopes and
\* its composition digest as they were and does not change what
\* verify_integrity returns, whether the key is new or overwritten.
C20_MetadataLeavesDigest ==
    [][(kSrc.op = "compose" /\ kSrc'.op = "compose")
       => /\ kComp'.proofs = kComp.proofs
          /\ kComp'.composition_hash = kComp.composition_hash
          /\ verify_integrity(kComp') = verify_integrity(kComp)]_vars

C20_Witness ==
    /\ kSrc.op = "compose" /\ kSrc.ok
    /\ Len(kComp.metadata) = MaxMeta
    /\ Len(kComp.proofs) > 1
    /\ verify_integrity(kComp)


-----------------------------------------------------------------------------
(* Limits specification: the compositor on inputs at and beyond its limits *)

\* a key one byte longer than the decoder accepts
OversizeKey == Run(97, MAX_METADATA_KEY_LEN + 1)

\* composite bytes written by hand: a header that declares no inner envelope
\* and no metadata, followed by the digest of the empty list or by zeroes, and
\* a header that declares one envelope more than the decoder accepts
CraftedComposites ==
    <<  Cat(COMP_MAGIC, Cat(ToLE(0, 4), Cat(ToLE(0, 4), compute_composition_hash(<<>>)))),
        Cat(COMP_MAGIC, Cat(ToLE(0, 4), Cat(ToLE(0, 4), Run(0, 32)))),
        Cat(COMP_MAGIC, Cat(ToLE(MAX_COMPOSITE_ITEMS + 1, 4), Cat(ToLE(0, 4), Run(0, 32))))  >>

\* CompositeProof::add_metadata with a key of 1025 bytes
AddOversizeMetadata ==
    \E v \in 1..Len(MetaValues) :
        /\ kSrc.op = "compose"
        /\ kSrc.ok
        /\ Len(kComp.metadata) < MaxMeta
        /\ kComp' = add_metadata(kComp, OversizeKey, MetaValues[v])
        /\ UNCHANGED <<kSrc, kBytes, kOut, codecVars, proofVars, batchVars, setupVars, lockVars, fileVars>>

\* CompositeProof::from_bytes on bytes no to_bytes produced
DecodeCrafted ==
    \E k \in 1..Len(CraftedComposites) :
        /\ KFresh
        /\ kBytes' = CraftedComposites[k]
        /\ kSrc' = KSrc("crafted", TRUE, "none", <<>>)
        /\ LET c == composite_from_bytes(CraftedComposites[k])
           IN  kOut' = KOut("from_bytes", IF c.ok THEN "ok" ELSE "err", c.val)
        /\ UNCHANGED <<kComp, codecVars, proofVars, batchVars, setupVars, lockVars, fileVars>>

SpecLimitsNext ==
    \/ Compose
    \/ AddMetadata
    \/ AddOversizeMetadata
    \/ DecodeCrafted

SpecLimits == SpecCompositeInit /\ [][SpecLimitsNext]_vars

\* the limits the decoder applies, as a predicate on a composite
WithinLimits(c) ==
    /\ Len(c.proofs) >= 1
    /\ Len(c.proofs) <= MAX_COMPOSITE_ITEMS
    /\ Len(c.metadata) <= MAX_COMPOSITE_ITEMS
    /\ \A i \in 1..Len(c.metadata) :
          /\ BLen(c.metadata[i].key) <= MAX_METADATA_KEY_LEN
          /\ BLen(c.metadata[i].value) <= MAX_METADATA_VALUE_LEN

\* C21: every composite that CompositeProof::new, add_metadata or from_bytes
\* hands out has between 1 and 1000 inner envelopes, at most 1000 metadata
\* entries, keys of at most 1024 bytes and values of at most 65536 bytes.
C21_CompositeWithinLimits ==
    /\ (kSrc.op = "compose" /\ kSrc.ok) => WithinLimits(kComp)
    /\ (kOut.fn = "from_bytes" /\ kOut.res = "ok") => WithinLimits(kOut.val)

(***************************************************************************)
(* Lock specification: the registry functions of advanced/batch.rs, one    *)
(* step per lock acquisition and release.  BATCH_COUNTER and               *)
(* BATCH_REGISTRY are std::sync::Mutex values: lock() blocks while another *)
(* thread holds the guard, and a guard is dropped at the end of the block  *)
(* or function that owns it.  The proofs of a taken batch are the work of  *)
(* the dispatch specification; here proving is the step between the end of *)
(* the locked block of process_batch and its return.                       *)
(***************************************************************************)

\* create_proof_batch is called while fewer than MaxIds ids are handed out
\* or about to be; the other calls name the first two ids, which are unknown
\* to the registry before they are handed out and after their batch is removed
MaxIds == 2
LockIds == {0, 1}

\* the arguments of the batch_add_* calls: two that pass validation, one that
\* fails; callers add an operation to a batch once
LockAdds == {BatchOperation("range", <<25>>, 18, 65),
             BatchOperation("equality", <<>>, 42, 42),
             BatchOperation("equality", <<>>, 1, 2)}

\* the check each batch_add_* makes before with_batch_mut: "ok" or the message
validate_add(op) ==
    IF op.kind = "range"
    THEN (IF op.x > op.y THEN "min cannot be greater than max"
          ELSE IF ~validate_range_params(op.vals[1], op.x, op.y) THEN "value is not in range"
          ELSE "ok")
    ELSE IF op.kind = "equality"
    THEN (IF op.x # op.y THEN "values must be equal" ELSE "ok")
    ELSE validate_threshold_params(op.vals, op.x)

\* Mutex::lock succeeds when no guard is alive; the guard belongs to thread t
MutexFree(lks, m) == lks[m] = "free"
MutexLock(lks, m, t) == [lks EXCEPT ![m] = t]
MutexUnlock(lks, m) == [lks EXCEPT ![m] = "free"]

\* the guards of a thread that are still alive are dropped when its function returns
DropGuardsLeaked(lks, t) == lks
DropGuards(lks, t) == [m \in DOMAIN lks |-> IF lks[m] = t THEN "free" ELSE lks[m]]

\* the end of the block of process_batch that owns the registry guard
ProcessBatchGuardKept(lks) == lks
ProcessBatchBlockEnd(lks) == MutexUnlock(lks, "registry")

\* let batch_id = *counter; *counter += 1
NextBatchIdStale(ctr) == [batch_id |-> ctr, counter |-> ctr]
NextBatchId(ctr) == [batch_id |-> ctr, counter |-> ctr + 1]

InCall(t) == calls[t].pc \notin {"idle", "returned"}
LockAddFns == {"batch_add_range_proof", "batch_add_equality_proof", "batch_add_threshold_proof"}
AddFn(op) == IF op.kind = "range" THEN "batch_add_range_proof"
             ELSE IF op.kind = "equality" THEN "batch_add_equality_proof"
             ELSE "batch_add_threshold_proof"

\* the calls of create_proof_batch that have not yet taken their id
Arriving ==
    Cardinality({u \in Threads : calls[u].pc = "lock_counter"})

\* the operation is in the batch, or a call is about to push it
Adding(batch_id, op) ==
    \/ /\ registry_contains(registry, batch_id)
       /\ \E i \in 1..Len(registry[batch_id]) : registry[batch_id][i] = op
    \/ \E u \in Threads : /\ calls[u].pc = "lock_registry"
                          /\ calls[u].batch_id = batch_id
                          /\ calls[u].op = op

Call(fn, batch_id, op, pc) ==
    [IdleCall EXCEPT !.pc = pc, !.fn = fn, !.batch_id = batch_id, !.op = op]

\* the record of a call that has returned: its function, whether it failed,
\* and whether it held the registry lock and returned while another thread
\* was proving the operations of a different batch
CallReturned(t, failed) ==
    [IdleCall EXCEPT !.pc = "returned", !.fn = calls[t].fn, !.err = IF failed THEN "failed" ELSE "none",
                     !.overlapped = /\ calls[t].pc = "locked"
                                    /\ \E u \in Threads \ {t} :
                                           /\ calls[u].pc = "proving"
                                           /\ calls[u].batch_id # calls[t].batch_id]

\* the ghost record of the ids handed out and, for each batch in the
\* registry, of the operations pushed, in the order in which the calls held
\* the locks
LedgerPush(led, batch_id, op) ==
    [led EXCEPT !.added = [i \in DOMAIN @ |-> IF i = batch_id THEN Append(@[i], op) ELSE @[i]]]
LedgerOpen(led, batch_id) ==
    [led EXCEPT !.added = [i \in DOMAIN @ \cup {batch_id} |-> IF i = batch_id THEN <<>> ELSE @[i]]]
LedgerForget(led, batch_id) ==
    [led EXCEPT !.added = [i \in DOMAIN @ \ {batch_id} |-> @[i]],
                !.removed = IF batch_id \in DOMAIN led.added
                            THEN @ \cup {batch_id} ELSE @]

LocksFrame ==
    UNCHANGED <<procs, taken, bOut, srs, facadeVars, codecVars, compVars, setupVars, fileVars>>

\* a thread calls create_proof_batch
CallCreate(t) ==
    /\ ~InCall(t)
    /\ counter + Arriving < MaxIds
    /\ calls' = [calls EXCEPT ![t] = Call("create_proof_batch", 0, NoOp, "lock_counter")]
    /\ UNCHANGED <<registry, counter, locks, ledger>>
    /\ LocksFrame

\* create_proof_batch: BATCH_COUNTER.lock(), the id is read and the counter incremented
CreateLockCounter(t) ==
    /\ calls[t].pc = "lock_counter"
    /\ MutexFree(locks, "counter")
    /\ LET n == NextBatchId(counter)
       IN  /\ counter' = n.counter
           /\ calls' = [calls EXCEPT ![t].pc = "lock_registry", ![t].batch_id = n.batch_id]
           /\ ledger' = [ledger EXCEPT !.issued = Append(@, n.batch_id)]
    /\ locks' = MutexLock(locks, "counter", t)
    /\ UNCHANGED registry
    /\ LocksFrame

\* create_proof_batch: BATCH_REGISTRY.lock() with the counter guard alive,
\* and the insert of the empty batch
CreateLockRegistry(t) ==
    /\ calls[t].pc = "lock_registry"
    /\ calls[t].fn = "create_proof_batch"
    /\ MutexFree(locks, "registry")
    /\ locks' = MutexLock(locks, "registry", t)
    /\ registry' = registry_insert(registry, calls[t].batch_id, <<>>)
    /\ calls' = [calls EXCEPT ![t].pc = "locked"]
    /\ ledger' = LedgerOpen(ledger, calls[t].batch_id)
    /\ UNCHANGED counter
    /\ LocksFrame

\* a thread calls batch_add_*: a failed validation returns before any lock
CallAddOf(t, adds) ==
    \E batch_id \in LockIds, op \in adds :
        /\ ~InCall(t)
        /\ LET checked == validate_add(op)
           IN  /\ checked = "ok" => ~Adding(batch_id, op)
               /\ calls' = [calls EXCEPT ![t] =
                      IF checked = "ok" THEN Call(AddFn(op), batch_id, op, "lock_registry")
                      ELSE [CallReturned(t, TRUE) EXCEPT !.fn = AddFn(op)]]
        /\ UNCHANGED <<registry, counter, locks, ledger>>
        /\ LocksFrame

CallAdd(t) == CallAddOf(t, LockAdds)

\* with_batch_mut: BATCH_REGISTRY.lock(), get_mut and the push
WithBatchMut(t) ==
    /\ calls[t].pc = "lock_registry"
    /\ calls[t].fn \in LockAddFns
    /\ MutexFree(locks, "registry")
    /\ locks' = MutexLock(locks, "registry", t)
    /\ LET batch_id == calls[t].batch_id
           r == with_batch_mut(registry, batch_id, calls[t].op)
       IN  /\ registry' = r.registry
           /\ calls' = [calls EXCEPT ![t].pc = "locked", ![t].err = r.err]
           /\ ledger' = IF r.err = "none" THEN LedgerPush(ledger, batch_id, calls[t].op)
                        ELSE ledger
    /\ UNCHANGED counter
    /\ LocksFrame

\* a thread calls get_batch_status, clear_batch or process_batch
CallById(t) ==
    \E batch_id \in LockIds, fn \in {"get_batch_status", "clear_batch", "process_batch"} :
        /\ ~InCall(t)
        /\ calls' = [calls EXCEPT ![t] = Call(fn, batch_id, NoOp, "lock_registry")]
        /\ UNCHANGED <<registry, counter, locks, ledger>>
        /\ LocksFrame

\* get_batch_status: BATCH_REGISTRY.lock() and the counts
GetBatchStatusLocked(t) ==
    /\ calls[t].pc = "lock_registry"
    /\ calls[t].fn = "get_batch_status"
    /\ MutexFree(locks, "registry")
    /\ locks' = MutexLock(locks, "registry", t)
    /\ calls' = [calls EXCEPT ![t].pc = "locked",
                              ![t].err = get_batch_status(registry, calls[t].batch_id).err]
    /\ UNCHANGED <<registry, counter, ledger>>
    /\ LocksFrame

\* clear_batch: BATCH_REGISTRY.lock() and the remove
ClearBatchLocked(t) ==
    /\ calls[t].pc = "lock_registry"
    /\ calls[t].fn = "clear_batch"
    /\ MutexFree(locks, "registry")
    /\ locks' = MutexLock(locks, "registry", t)
    /\ registry' = clear_batch(registry, calls[t].batch_id).registry
    /\ calls' = [calls EXCEPT ![t].pc = "locked"]
    /\ ledger' = LedgerForget(ledger, calls[t].batch_id)
    /\ UNCHANGED counter
    /\ LocksFrame

\* process_batch: BATCH_REGISTRY.lock() and the remove of the batch
ProcessBatchRemove(t) ==
    /\ calls[t].pc = "lock_registry"
    /\ calls[t].fn = "process_batch"
    /\ MutexFree(locks, "registry")
    /\ locks' = MutexLock(locks, "registry", t)
    /\ LET r == take_batch(registry, calls[t].batch_id)
       IN  /\ registry' = r.registry
           /\ calls' = [calls EXCEPT ![t].pc = IF r.err = "none" THEN "block" ELSE "locked",
                                     ![t].err = r.err,
                                     ![t].operations = r.operations]
    /\ ledger' = LedgerForget(ledger, calls[t].batch_id)
    /\ UNCHANGED counter
    /\ LocksFrame

\* process_batch: the locked block ends with the batch in hand
ProcessBatchUnlock(t) ==
    /\ calls[t].pc = "block"
    /\ locks' = ProcessBatchBlockEnd(locks)
    /\ calls' = [calls EXCEPT ![t].pc = "proving"]
    /\ UNCHANGED <<registry, counter, ledger>>
    /\ LocksFrame

\* process_batch: the operations are proved and the function returns
ProcessBatchProved(t) ==
    /\ calls[t].pc = "proving"
    /\ locks' = DropGuards(locks, t)
    /\ calls' = [calls EXCEPT ![t] = CallReturned(t, FALSE)]
    /\ UNCHANGED <<registry, counter, ledger>>
    /\ LocksFrame

\* a function returns from its locked block: its guards are dropped
ReturnUnlock(t) ==
    /\ calls[t].pc = "locked"
    /\ locks' = DropGuards(locks, t)
    /\ calls' = [calls EXCEPT ![t] = CallReturned(t, calls[t].err # "none")]
    /\ UNCHANGED <<registry, counter, ledger>>
    /\ LocksFrame

\* the steps of a call that has started
Proceed(t) ==
    \/ CreateLockCounter(t)
    \/ CreateLockRegistry(t)
    \/ WithBatchMut(t)
    \/ GetBatchStatusLocked(t)
    \/ ClearBatchLocked(t)
    \/ ProcessBatchRemove(t)
    \/ ProcessBatchUnlock(t)
    \/ ProcessBatchProved(t)
    \/ ReturnUnlock(t)

SpecLocksNext ==
    \E t \in Threads :
        \/ CallCreate(t)
        \/ CallAdd(t)
        \/ CallById(t)
        \/ CreateLockCounter(t)
        \/ CreateLockRegistry(t)
        \/ WithBatchMut(t)
        \/ GetBatchStatusLocked(t)
        \/ ClearBatchLocked(t)
        \/ ProcessBatchRemove(t)
        \/ ProcessBatchUnlock(t)
        \/ ProcessBatchProved(t)
        \/ ReturnUnlock(t)

SpecLocks == SpecBatchInit /\ [][SpecLocksNext]_vars

\* C22: while a thread proves the operations of the batch it removed, it
\* holds neither mutex, so the registry lock is free for the calls of others
C22_NoLockWhileProving ==
    \A t \in Threads : calls[t].pc = "proving" => \A m \in DOMAIN locks : locks[m] # t

\* a thread is proving and another thread's call, which took the registry
\* lock during that proving, has returned
C22_Witness ==
    \E t \in Threads, u \in Threads :
        /\ t # u
        /\ calls[t].pc = "proving"
        /\ calls[u].pc = "returned"
        /\ calls[u].overlapped

\* C23: the ids that create_proof_batch hands out are strictly increasing in
\* the order of allocation (so distinct) and below the counter (so no later
\* call gets one of them again); a removed id is never in the registry
\* again; and a create_proof_batch that is about to return its id holds the
\* registry lock with the id mapped to the empty batch
C23_IdsFreshAndMonotone ==
    /\ \A i \in 1..Len(ledger.issued) :
          /\ ledger.issued[i] < counter
          /\ \A j \in 1..Len(ledger.issued) : i < j => ledger.issued[i] < ledger.issued[j]
    /\ \A id \in ledger.removed : ~registry_contains(registry, id)
    /\ \A t \in Threads :
          (calls[t].fn = "create_proof_batch" /\ calls[t].pc = "locked")
              => /\ locks.registry = t
                 /\ registry_contains(registry, calls[t].batch_id)
                 /\ registry[calls[t].batch_id] = <<>>

\* a second id is about to be returned after the batch of the first was
\* removed, while the other thread has returned from its own create
C23_Witness ==
    \E t \in Threads, u \in Threads :
        /\ t # u
        /\ calls[t].fn = "create_proof_batch" /\ calls[t].pc = "locked"
        /\ calls[u].fn = "create_proof_batch" /\ calls[u].pc = "returned"
        /\ Len(ledger.issued) = 2
        /\ ledger.removed # {}

LiveAdds == {BatchOperation("equality", <<>>, 42, 42), BatchOperation("equality", <<>>, 1, 2)}
CallAddLive(t) == CallAddOf(t, LiveAdds)

SpecLocksLiveNext ==
    \E t \in Threads :
        \/ CallCreate(t)
        \/ CallAddLive(t)
        \/ CallById(t)
        \/ Proceed(t)

SpecLocksLive ==
    /\ SpecBatchInit
    /\ [][SpecLocksLiveNext]_vars
    /\ \A t \in Threads : WF_vars(Proceed(t))

\* a thread waits for a mutex that another thread holds
Wanted(t) == IF calls[t].pc = "lock_counter" THEN "counter" ELSE "registry"
Blocked(t) ==
    /\ calls[t].pc \in {"lock_counter", "lock_registry"}
    /\ ~MutexFree(locks, Wanted(t))

\* every thread that waits for a mutex waits for a thread that is inside a
\* call and does not itself wait: no cycle of waiting threads
NoWaitCycle ==
    \A t \in Threads :
        Blocked(t) => /\ locks[Wanted(t)] \in Threads \ {t}
                      /\ InCall(locks[Wanted(t)])
                      /\ ~Blocked(locks[Wanted(t)])

MaxRuns == 2

KeyFilesFrame ==
    UNCHANGED <<registry, counter, procs, taken, bOut, srs, facadeVars, codecVars, compVars,
                setupVars, lockVars>>

\* a process starts, or starts again after it ended or was killed
StartProcess(p) ==
    /\ writers[p].pc \in {"off", "done", "killed"}
    /\ writers[p].run < MaxRuns
    /\ writers' = [writers EXCEPT ![p] = [NoWriter EXCEPT !.pc = "exists", !.run = writers[p].run + 1]]
    /\ UNCHANGED disk
    /\ KeyFilesFrame

\* load_pk_vk: if !pk_path.exists() || !vk_path.exists() { return Ok(None) }
LoadExists(p) ==
    /\ writers[p].pc = "exists"
    /\ writers' = [writers EXCEPT ![p].pc =
           IF disk.pk = "absent" \/ disk.vk = "absent" THEN "generate" ELSE "read_pk"]
    /\ UNCHANGED disk
    /\ KeyFilesFrame

\* load_pk_vk: fs::read(pk_path)
LoadReadPk(p) ==
    /\ writers[p].pc = "read_pk"
    /\ writers' = [writers EXCEPT ![p].pc = "read_vk", ![p].pk = disk.pk]
    /\ UNCHANGED disk
    /\ KeyFilesFrame

\* load_pk_vk: fs::read(vk_path), both keys deserialised, Ok(Some((pk, vk)))
LoadReadVk(p) ==
    /\ writers[p].pc = "read_vk"
    /\ writers' = [writers EXCEPT ![p].pc = "loaded", ![p].vk = disk.vk]
    /\ UNCHANGED disk
    /\ KeyFilesFrame

\* generate_*_setup: the pair of this run
GenerateKeys(p) ==
    /\ writers[p].pc = "generate"
    /\ writers' = [writers EXCEPT ![p].pc = "write_pk",
                                  ![p].pk = <<p, writers[p].run>>,
                                  ![p].vk = <<p, writers[p].run>>]
    /\ UNCHANGED disk
    /\ KeyFilesFrame

\* persist_pk_vk: fs::write(pk_path, ..) succeeds, or fails and ends the persisting
PersistWritePk(p) ==
    \E written \in BOOLEAN :
        /\ writers[p].pc = "write_pk"
        /\ disk' = IF written THEN [disk EXCEPT !.pk = writers[p].pk] ELSE disk
        /\ writers' = [writers EXCEPT ![p].pc = IF written THEN "write_vk" ELSE "done"]
        /\ KeyFilesFrame

\* persist_pk_vk: fs::write(vk_path, ..) succeeds or fails
PersistWriteVk(p) ==
    \E written \in BOOLEAN :
        /\ writers[p].pc = "write_vk"
        /\ disk' = IF written THEN [disk EXCEPT !.vk = writers[p].vk] ELSE disk
        /\ writers' = [writers EXCEPT ![p].pc = "done"]
        /\ KeyFilesFrame

\* the pair a load returned is cached and used
LoadReturn(p) ==
    /\ writers[p].pc = "loaded"
    /\ writers' = [writers EXCEPT ![p].pc = "done"]
    /\ UNCHANGED disk
    /\ KeyFilesFrame

\* the process is killed in the middle of the routine
KillProcess(p) ==
    /\ writers[p].pc \notin {"off", "done", "killed", "loaded"}
    /\ writers' = [writers EXCEPT ![p] = [NoWriter EXCEPT !.pc = "killed", !.run = writers[p].run]]
    /\ UNCHANGED disk
    /\ KeyFilesFrame

SpecKeyFilesNext ==
    \E p \in Processes :
        \/ StartProcess(p)
        \/ LoadExists(p)
        \/ LoadReadPk(p)
        \/ LoadReadVk(p)
        \/ GenerateKeys(p)
        \/ PersistWritePk(p)
        \/ PersistWriteVk(p)
        \/ LoadReturn(p)
        \/ KillProcess(p)

SpecKeyFiles == SpecBatchInit /\ [][SpecKeyFilesNext]_vars

\* C26: the proving key and the verifying key that a load returns come from
\* the same setup run
C26_LoadedPairConsistent ==
    \A p \in Processes : writers[p].pc = "loaded" => writers[p].pk = writers[p].vk

(***************************************************************************)
(* Framing specification: reconstruct_bulletproofs_proof applied to a      *)
(* payload and a 32-byte commitment, and extract_bulletproofs_components   *)
(* applied to the result.                                                  *)
(***************************************************************************)

\* payloads without the marker, with parts of it, and with the whole marker
\* at the start, in the middle and at the end
FramedPayloads ==
    <<  <<>>,
        Byte(0),
        Run(0, 8),
        Run(1, 16),
        Run(67, 3),
        Cat(Byte(67), Byte(79)),
        Cat(ToLE(18, 8), ToLE(65, 8)),
        MARKER,
        Cat(Run(0, 4), MARKER),
        Cat(MARKER, Run(0, 40)),
        Cat(ToLE(1, 4), Cat(ToLE(1, 8), MARKER)),
        Cat(Run(0, 8), Cat(MARKER, Cat(Byte(0), Run(2, 32))))  >>

FramedCommitments ==
    <<  Run(0, 32),
        Run(1, 32),
        Cat(ToLE(1, 8), Run(0, 24)),
        Cat(Byte(67), Run(0, 31)),
        Cat(MARKER, Run(0, 25))  >>

FramingFrame == UNCHANGED <<srs, codecVars, compVars, batchVars, setupVars, lockVars, fileVars>>

\* reconstruct_bulletproofs_proof(proof_bytes, commitment)
ReconstructBulletproofsProof ==
    \E k \in 1..Len(FramedPayloads), c \in 1..Len(FramedCommitments) :
        /\ Fresh
        /\ pEnv' = reconstruct_bulletproofs_proof(FramedPayloads[k], FramedCommitments[c])
        /\ pSrc' = [NoSrc EXCEPT !.op = "framed", !.ok = TRUE, !.x = k, !.y = c]
        /\ pOut' = NoOut
        /\ FramingFrame

\* extract_bulletproofs_components(backend_proof)
ExtractBulletproofsComponents ==
    /\ pSrc.op = "framed"
    /\ pOut = NoOut
    /\ LET parts == extract_bulletproofs_components(pEnv)
       IN  pOut' = [NoOut EXCEPT !.fn = "extract_bulletproofs_components",
                                 !.res = IF parts.ok THEN "ok" ELSE "err",
                                 !.vals = <<parts.proof, parts.commitment>>]
    /\ UNCHANGED <<pEnv, pSrc>>
    /\ FramingFrame

SpecFramingNext == ReconstructBulletproofsProof \/ ExtractBulletproofsComponents

SpecFraming == SpecProofInit /\ [][SpecFramingNext]_vars

\* C27: splitting reconstruct(p, c) at the marker returns (p, c), for every
\* payload p, also one that contains the marker, and every 32-byte commitment c
C27_FramingRoundTrip ==
    pOut.fn = "extract_bulletproofs_components"
    => /\ pOut.res = "ok"
       /\ pOut.vals = <<FramedPayloads[pSrc.x], FramedCommitments[pSrc.y]>>

(***************************************************************************)
(* Registry specification: the calls that build and inspect batches,       *)
(* without proving, and with a threshold whose sum overflows among the     *)
(* arguments.                                                              *)
(***************************************************************************)

\* batch_add_threshold_proof with values whose sum does not fit in a u64
BatchAddThresholdOverflow ==
    \E batch_id \in BatchIds :
        /\ BFree
        /\ Added("batch_add_threshold_proof", batch_id,
                   BatchOperation("threshold", <<U64_MAX, 1>>, 0, 0),
                   batch_add_threshold_proof(registry, batch_id, <<U64_MAX, 1>>, 0))
        /\ UNCHANGED <<counter, procs, taken, srs, facadeVars, codecVars, compVars, setupVars,
                       lockVars, fileVars>>

SpecRegistryNext ==
    \/ CreateProofBatch
    \/ BatchAddRangeProof \/ BatchAddEqualityProof \/ BatchAddThresholdProof
    \/ BatchAddThresholdOverflow
    \/ GetBatchStatus \/ ClearBatch
    \/ BReturn

SpecRegistry == SpecBatchInit /\ [][SpecRegistryNext]_vars

\* the sum of the values as a natural number
RECURSIVE NatSum(_)
NatSum(values) == IF values = <<>> THEN 0 ELSE Head(values) + NatSum(Tail(values))

\* what the validation of each kind of operation demands of it
Validated(op) ==
    CASE op.kind = "range" -> op.x <= op.vals[1] /\ op.vals[1] <= op.y
      [] op.kind = "equality" -> op.x = op.y
      [] op.kind = "threshold" ->
             /\ op.vals # <<>>
             /\ NatSum(op.vals) <= U64_MAX
             /\ NatSum(op.vals) >= op.x
      [] OTHER -> TRUE

\* C28: every operation stored in the registry satisfies the validation of
\* its kind, and an add call that returns an error (failed validation or
\* unknown batch id) leaves the registry as it was
C28_OnlyValidatedStored ==
    /\ [](\A id \in DOMAIN registry :
             \A i \in 1..Len(registry[id]) : Validated(registry[id][i]))
    /\ [][(bOut = NoBOut /\ bOut'.fn \in AddFns /\ bOut'.err # "none")
              => registry' = registry]_vars

\* a batch holds a range, an equality and a threshold operation, and an add
\* of an operation that fails validation has just returned its error
C28_Witness ==
    \E id \in DOMAIN registry :
        /\ Len(registry[id]) = 3
        /\ bOut.fn \in AddFns
        /\ bOut.id = id
        /\ bOut.err \notin {"none", INVALID_BATCH_ID}

====
